---------------------------- MODULE Spec2Model ----------------------------
(***************************************************************************)
(* Verification model of the Telegram restricted-channel forwarder         *)
(* (lbj9527/CTG-Manager, C++/TDLib).                                       *)
(*                                                                         *)
(* Three components are modelled, each from its own source file, each      *)
(* with its own specification over the shared variable tuple:              *)
(*                                                                         *)
(*   SpecEngine     MediaHandler              src/src/media_handler.cpp    *)
(*   SpecForwarder  RestrictedChannelForwarder                             *)
(*                              src/src/restricted_channel_forwarder.cpp   *)
(*   SpecGateway    ClientManager             src/src/client_manager.cpp   *)
(*                                                                         *)
(* A call that leaves a component (the engine's send_query, the            *)
(* forwarder's calls into the engine and the gateway, TDLib's receive())   *)
(* is an input of that component: its result is drawn with \E from the     *)
(* results the callee's signature allows.                                  *)
(***************************************************************************)
EXTENDS Integers, Sequences, FiniteSets, TLC

(***************************************************************************)
(* Bounds of the model.                                                    *)
(***************************************************************************)
\* message ids of the source chat are 1..MaxMsg
MaxMsg == 3
\* at most MaxTasks MediaTask objects are created by download_media
MaxTasks == 3
\* a media group passed to download_media_group has at most MaxGroup members
MaxGroup == 2
\* the poll loop of forward_worker is followed for MaxCycles fetches
MaxCycles == 2
\* config_.max_history_messages, the history-fetch limit of the configuration
max_history_messages == 2
\* send_query_async is called at most MaxQueries times
MaxQueries == 2
\* a MediaGroupTask passed to upload_media_group has at most MaxAlbum tasks
MaxAlbum == 3
\* upload_media_group is called at most MaxAlbumThreads times
MaxAlbumThreads == 3
\* resolve_channel_sync runs on at most MaxResolverThreads threads at a time
MaxResolverThreads == 2
\* resolve_channel_sync is called at most MaxResolves times
MaxResolves == 3
\* the update handlers passed to register_update_handler are 1..MaxHandlers
MaxHandlers == 2
\* the dispatch thread is followed for MaxInbound items returned by receive
MaxInbound == 3

(***************************************************************************)
(* Program constants.                                                      *)
(***************************************************************************)
\* MediaHandler::MediaHandler(): max_concurrent_downloads_(2)
max_concurrent_downloads_ == 2
\* MediaHandler::MediaHandler(): max_concurrent_uploads_(2)
max_concurrent_uploads_ == 2
\* get_media_group_messages: get_history->limit_ = 50
GroupHistoryLimit == 50
\* RestrictedChannelForwarder::RestrictedChannelForwarder(): wait_time_ms_(1000)
wait_time_ms_ == 1000

VARIABLES
    \* ---- MediaHandler (media_handler.cpp) ----
    mh_running_,        \* MediaHandler::running_
    download_queue_,    \* MediaHandler::download_queue_: task ids, front first
    tasks,              \* the MediaTask objects, in creation order
    promises,           \* the std::promise of each task (shared state)
    dl_pc,              \* position of each download_worker thread
    dl_task,            \* the local `task` of each download_worker (0: null)
    active_downloads_,  \* MediaHandler::active_downloads_
    grp,                \* the download_media_group call and its join thread
    dequeue_log,        \* history: task ids in the order workers popped them
    terminated,         \* std::terminate() was called: the process is gone
    upload_queue_,      \* MediaHandler::upload_queue_: indices in uploads
    uploads,            \* the upload_media calls: [task, promise]
    ul_pc,              \* position of each upload_worker thread
    ul_task,            \* the entry each upload_worker popped (0: none)
    active_uploads_,    \* MediaHandler::active_uploads_
    albums,             \* the threads of the upload_media_group calls
    mh_stop_pc,         \* position of the caller of MediaHandler::stop
    \* ---- RestrictedChannelForwarder (restricted_channel_forwarder.cpp) ----
    chat,               \* the source chat: its messages, oldest first
    message_filters_,   \* RestrictedChannelForwarder::message_filters_
    fw_running_,        \* RestrictedChannelForwarder::running_
    stopping_,          \* RestrictedChannelForwarder::stopping_
    fw_pc,              \* position of start() / the forward_worker thread
    last_message_id_,   \* the cursor
    processed_media_groups_,
    forwarded_count_,
    failed_count_,
    batch,              \* `messages` of the current cycle (message ids)
    batch_i,            \* index in batch of the message handled next
    cycles,             \* history: number of get_new_messages calls so far
    forwarded_ok,       \* history: messages whose forward returned true
    resent,             \* history: messages sent again after such a forward
    failed_group_msgs,  \* history: messages whose album transfer returned false
    config_mode,        \* RestrictedChannelForwarder::config_.mode
    slept_ms,           \* history: the interval of the sleep_for that ended last
                        \* in the current cycle (0: none yet)
    start_result,       \* history: how the last call of start() ended
    \* ---- ClientManager (client_manager.cpp) ----
    gw_running_,        \* ClientManager::running_
    client_id_,         \* whether client_id_ holds a value
    state_,             \* ClientManager::state_
    query_id_,          \* ClientManager::query_id_
    response_handlers_, \* keys of ClientManager::response_handlers_
    update_handlers_,   \* ClientManager::update_handlers_: the handler stored
                        \* under each type (NoHandler: no entry)
    td_pending,         \* requests sent to TDLib and not answered yet
    disp_pc,            \* position of the process_updates thread
    disp_handler,       \* process_response: key of the handler moved out (0: none)
    disp_object,        \* process_response: the object being handled
    call_pc,            \* position of each thread calling send_query
    call_id,            \* the local query_id of each send_query call
    call_got,           \* what the promise of each send_query call holds
    starter_pc,         \* position of the thread calling start() and stop()
    auth_event,         \* the last authorization state handled
    registered,         \* history: per type, the handler registered last and
                        \* not unregistered since (NoHandler: none)
    replaced,           \* history: per type, the handler that registration
                        \* took the place of (NoHandler: none)
    disp_update,        \* history: the update handler called for the item
                        \* received last, and the type looked up
    received,           \* history: number of items receive() has returned
    disp_seq,           \* history: the number of the item in disp_object
    handled_seq,        \* history: the number of the item a handler or sink
                        \* was called for last (0: none yet)
    invoked_sinks,      \* history: request ids whose sink has been called
    written,            \* history: per request id, how often a request with
                        \* it was written to TDLib (2: more than once)
    startup_cursor,     \* history: last_message_id_ as start() left it
    fetched,            \* history: the messages get_new_messages has returned
    album_fetched,      \* history: the messages handed to forward_media_group
                        \* as the album of a message of the batch
    cycle_failed,       \* history: the albums whose transfer has failed in
                        \* the current poll cycle
    \* ---- ChannelResolver (channel_resolver.cpp) ----
    channel_cache_,     \* ChannelResolver::channel_cache_ (NoId: no entry)
    rc_pc,              \* position of each thread in resolve_channel_sync
    rc_arg,             \* the channel_identifier of each call
    rc_id,              \* the local channel_id of each call
    rc_ret,             \* history: what the last call of each thread returned
    rc_backend,         \* history: the call sent a query to the backend
    rc_later,           \* history: the call began after an id was returned
                        \* for its identifier, with no clear_cache since
    rc_calls,           \* history: number of resolve_channel_sync calls
    first_returned      \* history: per identifier, the id returned first
                        \* since the last clear_cache

engine_vars == <<mh_running_, download_queue_, tasks, promises, dl_pc, dl_task,
                 active_downloads_, grp, dequeue_log>>

fw_vars == <<chat, message_filters_, fw_running_, stopping_, fw_pc,
             last_message_id_, processed_media_groups_, forwarded_count_,
             failed_count_, batch, batch_i, cycles, forwarded_ok, resent,
                   failed_group_msgs, config_mode, slept_ms,
                   start_result>>

gw_vars == <<gw_running_, client_id_, state_, query_id_, response_handlers_,
             update_handlers_, td_pending, disp_pc, disp_handler, disp_object,
             call_pc, call_id, call_got, starter_pc, auth_event>>

\* the history of the gateway: what was registered, received, called, written
obs_vars == <<registered, replaced, disp_update, received, disp_seq,
              handled_seq, invoked_sinks, written>>

\* the history of the forwarder: what was fetched and attempted
track_vars == <<startup_cursor, fetched, album_fetched, cycle_failed>>

transfer_vars == <<upload_queue_, uploads, ul_pc, ul_task, active_uploads_,
                   albums, mh_stop_pc>>

resolver_vars == <<channel_cache_, rc_pc, rc_arg, rc_id, rc_ret, rc_backend,
                   rc_later, rc_calls, first_returned>>

vars == <<engine_vars, terminated, transfer_vars, fw_vars, gw_vars,
          resolver_vars, obs_vars, track_vars>>

Msgs == 1..MaxMsg
TaskIds == 1..MaxTasks

\* start() with the loop bound off by one (i <= max_concurrent_downloads_)
DownloadWorkers_OneTooMany == 1..(max_concurrent_downloads_ + 1)

\* the download_worker threads start() creates (lines 184-186)
DownloadWorkers == 1..max_concurrent_downloads_

\* the values of a std::vector / std::queue over S, up to length n
RECURSIVE SeqsUpTo(_, _)
SeqsUpTo(S, n) ==
    IF n = 0 THEN {<<>>}
    ELSE LET shorter == SeqsUpTo(S, n - 1)
         IN  shorter \cup {Append(s, x) : s \in {q \in shorter : Len(q) = n - 1}, x \in S}

Range(s) == {s[i] : i \in 1..Len(s)}
IsInjective(s) == \A i, j \in 1..Len(s) : i # j => s[i] # s[j]

(***************************************************************************)
(* MediaTask, std::promise                                                 *)
(***************************************************************************)
\* MediaTask::MediaTask: state_ Pending, no error
NewMediaTask(m) == [message |-> m, state |-> "Pending", error |-> ""]

\* A promise whose future was handed out by get_future(): download_media
\* calls promise.get_future() before it queues the promise.
NewPromiseFutureRetrieved == [retrieved |-> TRUE, state |-> "pending"]

\* std::promise::get_future(): throws std::future_error
\* (future_already_retrieved) when the future of this shared state was
\* retrieved before; moving the promise moves the shared state with its flag.
PromiseGetFutureThrows(p) == p.retrieved

TerminalStates == {"Completed", "Failed"}

NoGroup == [pc |-> "none", input |-> <<>>, futures |-> <<>>, tasks_ |-> <<>>,
            promise |-> "none"]

\* the upload_worker threads start() creates (lines 188-190)
UploadWorkers == 1..max_concurrent_uploads_

\* get_media_type of a member's message; "Audio" stands for the kinds the
\* switch of upload_media_group has no case for
MediaTypes == {"Photo", "Video", "Document", "Audio"}

\* get_caption of a member's message: none, or one of two texts
Captions == {"", "a", "b"}

GroupMembers == [kind : MediaTypes, caption : Captions]

EngineInit ==
    /\ mh_running_ = FALSE
    /\ download_queue_ = <<>>
    /\ tasks = <<>>
    /\ promises = <<>>
    /\ dl_pc = [w \in DownloadWorkers |-> "unstarted"]
    /\ dl_task = [w \in DownloadWorkers |-> 0]
    /\ active_downloads_ = 0
    /\ grp = NoGroup
    /\ dequeue_log = <<>>

(***************************************************************************)
(* MediaHandler::start (lines 174-194): sets running_ and creates          *)
(* max_concurrent_downloads_ download_worker threads.                      *)
(***************************************************************************)
MH_start ==
    /\ ~terminated
    /\ UNCHANGED <<track_vars, obs_vars, resolver_vars, fw_vars, gw_vars>>
    /\ ~mh_running_
    /\ mh_stop_pc = "none"
    /\ mh_running_' = TRUE
    /\ dl_pc' = [w \in DownloadWorkers |-> "wait"]
    /\ ul_pc' = [w \in UploadWorkers |-> "wait"]
    /\ UNCHANGED <<download_queue_, tasks, promises, dl_task, active_downloads_,
                   grp, dequeue_log, terminated>>
    /\ UNCHANGED <<upload_queue_, uploads, ul_task, active_uploads_, albums,
                   mh_stop_pc>>

(***************************************************************************)
(* MediaHandler::download_media (lines 227-241): a new task and its        *)
(* promise are pushed at the back of download_queue_.                      *)
(***************************************************************************)
Enqueue(q, t) == Append(q, t)

\* members of the group call in progress that are not queued yet
GroupToSubmit ==
    IF grp.pc = "submit" THEN Len(grp.input) - Len(grp.futures) ELSE 0

download_media(m) ==
    /\ ~terminated
    /\ UNCHANGED <<track_vars, obs_vars, resolver_vars, transfer_vars, fw_vars, gw_vars>>
    /\ Len(tasks) + GroupToSubmit < MaxTasks
    /\ tasks' = Append(tasks, NewMediaTask(m))
    /\ promises' = Append(promises, NewPromiseFutureRetrieved)
    /\ download_queue_' = Enqueue(download_queue_, Len(tasks) + 1)
    /\ UNCHANGED <<mh_running_, dl_pc, dl_task, active_downloads_, grp,
                   dequeue_log, terminated>>

(***************************************************************************)
(* MediaHandler::download_media_group (lines 243-288).                     *)
(*   call : lines 244-263, the early returns and the new MediaGroupTask    *)
(*   step : lines 266-269, one download_media per message, in input order; *)
(*          line 272, the detached join thread is created;                 *)
(*          lines 273-284, the join thread: future.get() of each member in *)
(*          the order of `futures`, add_task, then set_value.              *)
(***************************************************************************)
GroupInputs == {s \in SeqsUpTo(Msgs, MaxGroup) : IsInjective(s)}

download_media_group_call(messages, has_group_id) ==
    /\ ~terminated
    /\ UNCHANGED <<track_vars, obs_vars, resolver_vars, transfer_vars, fw_vars, gw_vars>>
    /\ grp.pc = "none"
    /\ Len(tasks) + Len(messages) <= MaxTasks
    /\ IF messages = <<>> \/ ~has_group_id
       THEN grp' = [NoGroup EXCEPT !.pc = "done", !.input = messages,
                                   !.promise = "nullptr"]
       ELSE grp' = [NoGroup EXCEPT !.pc = "submit", !.input = messages,
                                   !.promise = "pending"]
    /\ UNCHANGED <<mh_running_, download_queue_, tasks, promises, dl_pc, dl_task,
                   active_downloads_, dequeue_log, terminated>>

\* MediaGroupTask::add_task (lines 103-105)
add_task(tasks_, t) == Append(tasks_, t)

\* the future of the member the join thread waits for next
\* MediaGroupTask::completed_count (lines 111-115)
completed_count(tasks_) ==
    Cardinality({i \in 1..Len(tasks_) : tasks[tasks_[i]].state = "Completed"})

\* MediaGroupTask::failed_count (lines 117-121)
failed_count(tasks_) ==
    Cardinality({i \in 1..Len(tasks_) : tasks[tasks_[i]].state = "Failed"})

JoinIndex == Len(grp.tasks_) + 1

download_media_group_step ==
    /\ ~terminated
    /\ UNCHANGED <<track_vars, obs_vars, resolver_vars, transfer_vars, fw_vars, gw_vars>>
    /\ grp.pc \in {"submit", "join"}
    /\ IF grp.pc = "submit"
       THEN IF Len(grp.futures) < Len(grp.input)
            THEN \* futures.push_back(download_media(message))
                 LET m == grp.input[Len(grp.futures) + 1]
                     t == Len(tasks) + 1
                 IN  /\ tasks' = Append(tasks, NewMediaTask(m))
                     /\ promises' = Append(promises, NewPromiseFutureRetrieved)
                     /\ download_queue_' = Enqueue(download_queue_, t)
                     /\ grp' = [grp EXCEPT !.futures = Append(@, t)]
            ELSE \* std::thread(...).detach(); return group_future
                 /\ grp' = [grp EXCEPT !.pc = "join"]
                 /\ UNCHANGED <<tasks, promises, download_queue_>>
       ELSE IF JoinIndex <= Len(grp.futures)
            THEN \* future.get() blocks until the member's promise has a value
                 /\ promises[grp.futures[JoinIndex]].state = "value"
                 /\ grp' = [grp EXCEPT
                              !.tasks_ = add_task(@, grp.futures[JoinIndex])]
                 /\ UNCHANGED <<tasks, promises, download_queue_>>
            ELSE \* group_promise.set_value(group_task)
                 /\ grp' = [grp EXCEPT !.pc = "done", !.promise = "value"]
                 /\ UNCHANGED <<tasks, promises, download_queue_>>
    /\ UNCHANGED <<mh_running_, dl_pc, dl_task, active_downloads_, dequeue_log,
                   terminated>>

(***************************************************************************)
(* MediaHandler::download_worker (lines 442-496), one step of thread w.    *)
(*   "wait"     lines 450-465: wait for a task or for !running_, pop the   *)
(*              front of the queue                                         *)
(*   "check"    line 468: task && promise.get_future().valid().  The       *)
(*              promise is the one download_media queued, and its future   *)
(*              was retrieved there (line 229), so get_future() throws     *)
(*              std::future_error.  The call is outside the try block of   *)
(*              line 469: the exception leaves the thread function and     *)
(*              std::terminate() ends the process.                         *)
(*   "download" lines 469-491: download_file, Completed or Failed, the     *)
(*              promise gets its value.                                    *)
(***************************************************************************)
\* a worker that takes the newest entry (back()) instead of the oldest
QueueTakeIndex_Back(q) == Len(q)

\* download_queue_.front() / pop(): the position that is taken
QueueTakeIndex(q) == 1

RemoveAt(q, i) == [k \in 1..(Len(q) - 1) |-> IF k < i THEN q[k] ELSE q[k + 1]]

\* results of download_file (lines 554-620): it returns, or throws MediaError
\* or the runtime_error of a send_query that timed out
DownloadOutcomes == {"ok", "MediaError", "timeout"}

download_worker(w) ==
    /\ ~terminated
    /\ UNCHANGED <<track_vars, obs_vars, resolver_vars, transfer_vars, fw_vars, gw_vars>>
    /\ dl_pc[w] \in {"wait", "check", "download"}
    /\ IF dl_pc[w] = "wait"
       THEN /\ ~mh_running_ \/ download_queue_ # <<>>
            /\ IF ~mh_running_
               THEN /\ dl_pc' = [dl_pc EXCEPT ![w] = "exited"]
                    /\ UNCHANGED <<download_queue_, dl_task, dequeue_log>>
               ELSE LET i == QueueTakeIndex(download_queue_)
                        t == download_queue_[i]
                    IN  /\ download_queue_' = RemoveAt(download_queue_, i)
                        /\ dl_task' = [dl_task EXCEPT ![w] = t]
                        /\ dequeue_log' = Append(dequeue_log, t)
                        /\ dl_pc' = [dl_pc EXCEPT ![w] = "check"]
            /\ UNCHANGED <<tasks, promises, active_downloads_, terminated>>
       ELSE IF dl_pc[w] = "check"
       THEN IF PromiseGetFutureThrows(promises[dl_task[w]])
            THEN /\ terminated' = TRUE
                 /\ UNCHANGED <<download_queue_, tasks, promises, dl_pc, dl_task,
                                active_downloads_, dequeue_log>>
            ELSE /\ active_downloads_' = active_downloads_ + 1
                 /\ tasks' = [tasks EXCEPT ![dl_task[w]].state = "Processing"]
                 /\ dl_pc' = [dl_pc EXCEPT ![w] = "download"]
                 /\ UNCHANGED <<download_queue_, promises, dl_task, dequeue_log,
                                terminated>>
       ELSE \E outcome \in DownloadOutcomes :
            /\ tasks' = [tasks EXCEPT ![dl_task[w]] =
                   IF outcome = "ok"
                   THEN [@ EXCEPT !.state = "Completed"]
                   ELSE [@ EXCEPT !.state = "Failed", !.error = outcome]]
            /\ promises' = [promises EXCEPT ![dl_task[w]].state = "value"]
            /\ active_downloads_' = active_downloads_ - 1
            /\ dl_task' = [dl_task EXCEPT ![w] = 0]
            /\ dl_pc' = [dl_pc EXCEPT ![w] = "wait"]
            /\ UNCHANGED <<download_queue_, dequeue_log, terminated>>
    /\ UNCHANGED <<mh_running_, grp>>

(***************************************************************************)
(*            MediaHandler, the upload side and stop()                     *)
(*                                                                         *)
(* upload_media queues [task, promise] entries for the upload_worker       *)
(* threads; upload_media_group creates one detached thread per call.  The  *)
(* members of a group are given by the kind and the caption of the message *)
(* of each task, in the order of MediaGroupTask::tasks().                  *)
(***************************************************************************)
TransferInit ==
    /\ upload_queue_ = <<>>
    /\ uploads = <<>>
    /\ ul_pc = [w \in UploadWorkers |-> "unstarted"]
    /\ ul_task = [w \in UploadWorkers |-> 0]
    /\ active_uploads_ = 0
    /\ albums = <<>>
    /\ mh_stop_pc = "none"

\* MediaHandler::upload_media (lines 290-302): the promise is queued after
\* its future was retrieved (line 292)
upload_media(t) ==
    /\ ~terminated
    /\ t \in 1..Len(tasks)
    /\ Len(uploads) < MaxTasks
    /\ uploads' = Append(uploads, [task |-> t, promise |-> NewPromiseFutureRetrieved])
    /\ upload_queue_' = Enqueue(upload_queue_, Len(uploads) + 1)
    /\ UNCHANGED <<ul_pc, ul_task, active_uploads_, albums, mh_stop_pc>>
    /\ UNCHANGED <<track_vars, obs_vars, resolver_vars, engine_vars, terminated, fw_vars, gw_vars>>

\* results of upload_file: it returns the new message, or throws
UploadOutcomes == {"ok", "MediaError", "timeout"}

\* MediaHandler::upload_worker (lines 498-552), one step of thread w; the
\* positions are those of download_worker, the test of line 524 is the one
\* of line 468
upload_worker(w) ==
    /\ ~terminated
    /\ ul_pc[w] \in {"wait", "check", "upload"}
    /\ IF ul_pc[w] = "wait"
       THEN /\ ~mh_running_ \/ upload_queue_ # <<>>
            /\ IF ~mh_running_
               THEN /\ ul_pc' = [ul_pc EXCEPT ![w] = "exited"]
                    /\ UNCHANGED <<upload_queue_, ul_task>>
               ELSE /\ upload_queue_' = Tail(upload_queue_)
                    /\ ul_task' = [ul_task EXCEPT ![w] = Head(upload_queue_)]
                    /\ ul_pc' = [ul_pc EXCEPT ![w] = "check"]
            /\ UNCHANGED <<uploads, tasks, active_uploads_, terminated>>
       ELSE IF ul_pc[w] = "check"
       THEN IF PromiseGetFutureThrows(uploads[ul_task[w]].promise)
            THEN /\ terminated' = TRUE
                 /\ UNCHANGED <<upload_queue_, uploads, tasks, ul_pc, ul_task,
                                active_uploads_>>
            ELSE /\ active_uploads_' = active_uploads_ + 1
                 /\ tasks' = [tasks EXCEPT
                                ![uploads[ul_task[w]].task].state = "Processing"]
                 /\ ul_pc' = [ul_pc EXCEPT ![w] = "upload"]
                 /\ UNCHANGED <<upload_queue_, uploads, ul_task, terminated>>
       ELSE \E outcome \in UploadOutcomes :
            /\ tasks' = [tasks EXCEPT ![uploads[ul_task[w]].task] =
                   IF outcome = "ok"
                   THEN [@ EXCEPT !.state = "Completed"]
                   ELSE [@ EXCEPT !.state = "Failed", !.error = outcome]]
            /\ uploads' = [uploads EXCEPT ![ul_task[w]].promise.state =
                   IF outcome = "ok" THEN "value" ELSE "exception"]
            /\ active_uploads_' = active_uploads_ - 1
            /\ ul_task' = [ul_task EXCEPT ![w] = 0]
            /\ ul_pc' = [ul_pc EXCEPT ![w] = "wait"]
            /\ UNCHANGED <<upload_queue_, terminated>>
    /\ UNCHANGED <<albums, mh_stop_pc>>
    /\ UNCHANGED <<mh_running_, download_queue_, promises, dl_pc, dl_task,
                   active_downloads_, grp, dequeue_log>>
    /\ UNCHANGED <<track_vars, obs_vars, resolver_vars, fw_vars, gw_vars>>

\* MediaGroupTask::caption (lines 140-150): the first caption that is not
\* empty, in the order of the tasks
RECURSIVE caption(_)
caption(tasks_) ==
    IF tasks_ = <<>> THEN ""
    ELSE IF Head(tasks_).caption # "" THEN Head(tasks_).caption
    ELSE caption(Tail(tasks_))

\* the kinds the switch of upload_media_group has a case for (lines 327-371)
SupportedTypes == {"Photo", "Video", "Document"}

\* the test `i == 0` of lines 334, 347 and 360; i counts from 1 here
CaptionGoesTo(i, media_contents) == i = 1

\* a loop that stops at the first member it has no case for
MemberIncluded_StopAtUnsupported(tasks_, i) ==
    \A k \in 1..i : tasks_[k].kind \in SupportedTypes

\* the switch of lines 327-375: the member gets an item, or the default
\* case warns and goes on
MemberIncluded(tasks_, i) == tasks_[i].kind \in SupportedTypes

\* upload_media_group, the for loop of lines 320-376 from member i on:
\* media_contents after it.  An item is [member, kind, caption].
RECURSIVE BuildAlbum(_, _, _)
BuildAlbum(tasks_, i, media_contents) ==
    IF i > Len(tasks_) THEN media_contents
    ELSE IF MemberIncluded(tasks_, i)
    THEN BuildAlbum(tasks_, i + 1,
             Append(media_contents,
                    [member |-> i, kind |-> tasks_[i].kind,
                     caption |-> IF CaptionGoesTo(i, media_contents)
                                 THEN caption(tasks_) ELSE ""]))
    ELSE BuildAlbum(tasks_, i + 1, media_contents)

\* MediaHandler::upload_media_group (lines 304-414), the call: a detached
\* thread is created for the group
upload_media_group(tasks_, max_threads) ==
    /\ ~terminated
    /\ Len(albums) < max_threads
    /\ albums' = Append(albums, [pc |-> "created", tasks_ |-> tasks_,
                                 media_contents |-> <<>>, promise |-> "pending"])
    /\ UNCHANGED <<upload_queue_, uploads, ul_pc, ul_task, active_uploads_,
                   mh_stop_pc>>
    /\ UNCHANGED <<track_vars, obs_vars, resolver_vars, engine_vars, terminated, fw_vars, gw_vars>>

\* the answers to the sendMessageAlbum of line 388
AlbumSendResults == {"messages", "error", "timeout"}

\* the thread of upload_media_group call k (lines 309-411)
\*   "created" lines 310-385: an empty group resolves the promise with no
\*             message; else the album is built and sendMessageAlbum is
\*             handed to send_query
\*   "send"    lines 388-410: the answer arrives, or the wait times out
upload_media_group_thread(k, result) ==
    /\ ~terminated
    /\ k \in 1..Len(albums)
    /\ albums[k].pc \in {"created", "send"}
    /\ LET album == albums[k]
       IN  IF album.pc = "created"
           THEN /\ result = "messages"
                /\ albums' = [albums EXCEPT ![k] =
                       IF album.tasks_ = <<>>
                       THEN [album EXCEPT !.pc = "done", !.promise = "empty"]
                       ELSE [album EXCEPT
                               !.pc = "send",
                               !.media_contents = BuildAlbum(album.tasks_, 1, <<>>)]]
           ELSE albums' = [albums EXCEPT ![k] =
                       [album EXCEPT !.pc = "done",
                                     !.promise = IF result = "messages"
                                                 THEN "value" ELSE "exception"]]
    /\ UNCHANGED <<upload_queue_, uploads, ul_pc, ul_task, active_uploads_,
                   mh_stop_pc>>
    /\ UNCHANGED <<track_vars, obs_vars, resolver_vars, engine_vars, terminated, fw_vars, gw_vars>>

\* MediaHandler::stop (lines 196-210): running_ is cleared and both
\* condition variables are notified; the caller then joins the threads
MH_stop ==
    /\ ~terminated
    /\ mh_running_
    /\ mh_stop_pc = "none"
    /\ mh_running_' = FALSE
    /\ mh_stop_pc' = "joining"
    /\ UNCHANGED <<upload_queue_, uploads, ul_pc, ul_task, active_uploads_, albums>>
    /\ UNCHANGED <<download_queue_, tasks, promises, dl_pc, dl_task,
                   active_downloads_, grp, dequeue_log>>
    /\ UNCHANGED <<track_vars, obs_vars, resolver_vars, terminated, fw_vars, gw_vars>>

\* stop(), lines 211-224: every join has returned, the thread lists are
\* cleared and stop() returns; the queues are left as they are
MH_stop_joined ==
    /\ ~terminated
    /\ mh_stop_pc = "joining"
    /\ \A w \in DownloadWorkers : dl_pc[w] = "exited"
    /\ \A w \in UploadWorkers : ul_pc[w] = "exited"
    /\ mh_stop_pc' = "stopped"
    /\ UNCHANGED <<upload_queue_, uploads, ul_pc, ul_task, active_uploads_, albums>>
    /\ UNCHANGED <<track_vars, obs_vars, resolver_vars, engine_vars, terminated, fw_vars, gw_vars>>

(***************************************************************************)
(*        RestrictedChannelForwarder (restricted_channel_forwarder.cpp)    *)
(*                                                                         *)
(* The source chat is a sequence of messages, the id of a message being    *)
(* its position.  A message is [kind, group]: kind "text", "photo" or      *)
(* "other" (a content type that is neither text nor media), group the      *)
(* media album id (0: none; only media content carries one, see            *)
(* get_media_group_id in utils.cpp).                                       *)
(***************************************************************************)
MessageShapes ==
    { [kind |-> "text",  group |-> 0], [kind |-> "photo", group |-> 0],
      [kind |-> "photo", group |-> 1], [kind |-> "other", group |-> 0] }

\* the filter lists init() can build (lines 69-102), as sets
FilterConfigs == { {"All"}, {"Text"} }

ForwarderInit ==
    /\ chat = <<>>
    /\ message_filters_ = {}
    /\ fw_running_ = FALSE
    /\ stopping_ = FALSE
    /\ fw_pc = "constructed"
    /\ last_message_id_ = 0
    /\ processed_media_groups_ = {}
    /\ forwarded_count_ = 0
    /\ failed_count_ = 0
    /\ batch = <<>>
    /\ batch_i = 1
    /\ cycles = 0
    /\ forwarded_ok = {}
    /\ resent = {}
    /\ failed_group_msgs = {}
    /\ config_mode = "Continuous"
    /\ slept_ms = 0
    /\ start_result = "none"

Min(a, b) == IF a < b THEN a ELSE b

\* std::sort by id, ascending (lines 327-329, 385-387)
RECURSIVE SortAscending(_)
SortAscending(S) ==
    IF S = {} THEN <<>>
    ELSE LET least == CHOOSE x \in S : \A y \in S : x <= y
         IN  <<least>> \o SortAscending(S \ {least})

\* getChatHistory answered with messages: the newest `limit` messages of the
\* chat (fewer when the chat is shorter)
HistoryWindow(limit) == {id \in 1..Len(chat) : id > Len(chat) - limit}

\* a send_query that does not return messages: an error object, or the
\* runtime_error of the timeout
HistoryResults == {"messages", "error", "timeout"}

\* get_new_messages (lines 302-332), for a getChatHistory answered with messages
get_new_messages(last_message_id, limit) ==
    SortAscending({id \in HistoryWindow(limit) : id > last_message_id})

\* get_latest_message_id (lines 334-356): 0 on an error or an empty chat
get_latest_message_id(r) ==
    IF r = "messages" /\ chat # <<>> THEN Len(chat) ELSE 0

\* get_media_group_messages (lines 358-390)
get_media_group_messages(media_group_id) ==
    SortAscending({id \in HistoryWindow(GroupHistoryLimit) :
                       chat[id].group = media_group_id})

\* should_forward_message (lines 392-447)
should_forward_message(m) ==
    \/ "All" \in message_filters_
    \/ "Text" \in message_filters_ /\ chat[m].kind = "text"
    \/ "Photo" \in message_filters_ /\ chat[m].kind = "photo"

\* get_media_group_id (utils.cpp lines 107-139): 0 stands for std::nullopt
get_media_group_id(m) == chat[m].group

\* a forwarder that never finds a group in the set
media_group_processed_Never(media_group_id) == FALSE

\* media_group_processed (lines 449-451)
media_group_processed(media_group_id) ==
    media_group_id \in processed_media_groups_

\* a cursor that is assigned the id instead of the maximum
AdvanceCursor_Assign(cursor, id) == id

\* a cursor that is left where it is
AdvanceCursor_Keep(cursor, id) == cursor

\* last_message_id_ = std::max(last_message_id_, message->id_)
AdvanceCursor(cursor, id) == IF cursor < id THEN id ELSE cursor

\* an update that looks at the first member only
update_last_message_id_FirstOnly(cursor, messages) ==
    IF messages = <<>> THEN cursor ELSE AdvanceCursor(cursor, Head(messages))

\* update_last_message_id (lines 453-457)
RECURSIVE update_last_message_id(_, _)
update_last_message_id(cursor, messages) ==
    IF messages = <<>> THEN cursor
    ELSE update_last_message_id(AdvanceCursor(cursor, Head(messages)),
                                Tail(messages))

\* What forward_message (lines 502-569) and forward_media_group (lines
\* 571-610) can come to.  "ok": the send was answered with the new
\* message(s).  "error": the send was answered with an error object.
\* "timeout": send_query threw.  "download_failed": a member task came back
\* Failed, nothing is uploaded.  "terminated": the engine ended the process
\* while the forwarder was waiting on its future.
ForwardOutcomes == {"ok", "error", "timeout", "download_failed", "terminated"}

\* whether a request that sends to the target chat was issued
SendIssued(outcome) == outcome \in {"ok", "error", "timeout"}

\* forward_message (lines 502-519) with forward_text_message and
\* forward_media_message: "true", "false", "throws" or "terminated"
forward_message(m, outcome) ==
    IF chat[m].kind = "text"
    THEN CASE outcome = "ok" -> "true"
           [] outcome = "error" -> "false"
           [] outcome = "timeout" -> "throws"
           [] OTHER -> "none"
    ELSE IF chat[m].kind = "photo"
    THEN CASE outcome = "ok" -> "true"
           [] outcome \in {"error", "timeout", "download_failed"} -> "false"
           [] OTHER -> "terminated"
    ELSE IF outcome = "error" THEN "false" ELSE "none"

\* a forward_media_group that goes on after a failed download
forward_media_group_IgnoresFailure(messages, outcome) ==
    IF outcome = "terminated" THEN "terminated" ELSE "true"

\* forward_media_group (lines 571-610): "true", "false" or "terminated"
forward_media_group(messages, outcome) ==
    CASE outcome = "ok" -> "true"
      [] outcome \in {"error", "timeout", "download_failed"} -> "false"
      [] OTHER -> "terminated"

\* The body of the for loop of forward_worker (lines 213-274) for message m:
\* the values of the forwarder's fields after it.  `history` is the result
\* of the getChatHistory of get_media_group_messages, `outcome` that of the
\* forward.  The record also says which messages a send was issued for
\* (sent), which were forwarded with success (ok), which were passed to
\* forward_message or forward_media_group to be downloaded or sent
\* (handed), and whether the input pair applies at all to this message
\* (applies).
FieldsBefore ==
    [cursor |-> last_message_id_, groups |-> processed_media_groups_,
     forwarded |-> forwarded_count_, failed |-> failed_count_,
     sent |-> {}, ok |-> {}, group_failed |-> FALSE, term |-> FALSE,
     applies |-> TRUE, handed |-> {}]

ProcessMessage(m, history, outcome) ==
    LET media_group_id == get_media_group_id(m)
    IN
    IF ~should_forward_message(m)
    THEN \* line 215-218: continue
         [FieldsBefore EXCEPT !.applies = (history = "messages" /\ outcome = "ok")]
    ELSE IF media_group_id # 0 /\ ~media_group_processed(media_group_id)
    THEN IF history # "messages"
         THEN \* get_media_group_messages throws: catch of line 271
              [FieldsBefore EXCEPT !.failed = @ + 1, !.applies = (outcome = "ok")]
         ELSE LET group_messages == get_media_group_messages(media_group_id)
                  result == forward_media_group(group_messages, outcome)
              IN  IF group_messages = <<>>
                  THEN [FieldsBefore EXCEPT !.applies = (outcome = "ok")]
                  ELSE IF result = "true"
                  THEN [FieldsBefore EXCEPT
                          !.forwarded = @ + Len(group_messages),
                          !.groups = @ \cup {media_group_id},
                          !.cursor = update_last_message_id(@, group_messages),
                          !.sent = Range(group_messages),
                          !.ok = Range(group_messages),
                          !.handed = Range(group_messages)]
                  ELSE IF result = "false"
                  THEN [FieldsBefore EXCEPT
                          !.failed = @ + Len(group_messages),
                          !.group_failed = TRUE,
                          !.sent = IF SendIssued(outcome)
                                   THEN Range(group_messages) ELSE {},
                          !.handed = Range(group_messages)]
                  ELSE [FieldsBefore EXCEPT !.term = TRUE,
                                         !.handed = Range(group_messages)]
    ELSE IF media_group_id # 0
    THEN \* lines 250-256: the group is processed, skip the message
         [FieldsBefore EXCEPT !.cursor = AdvanceCursor(@, m),
                           !.applies = (history = "messages" /\ outcome = "ok")]
    ELSE LET result == forward_message(m, outcome)
         IN  IF result = "true"
             THEN [FieldsBefore EXCEPT !.forwarded = @ + 1,
                                    !.cursor = AdvanceCursor(@, m),
                                    !.sent = {m}, !.ok = {m},
                                    !.handed = {m},
                                    !.applies = (history = "messages")]
             ELSE IF result \in {"false", "throws"}
             THEN [FieldsBefore EXCEPT
                     !.failed = @ + 1,
                     !.sent = IF SendIssued(outcome) /\ chat[m].kind # "other"
                              THEN {m} ELSE {},
                     !.handed = IF chat[m].kind # "other" THEN {m} ELSE {},
                     !.applies = (history = "messages")]
             ELSE IF result = "terminated"
             THEN [FieldsBefore EXCEPT !.term = TRUE,
                                    !.handed = {m},
                                    !.applies = (history = "messages")]
             ELSE [FieldsBefore EXCEPT !.applies = FALSE]

\* the values of config.mode: the two enumerators, and any other value
ForwarderModes == {"Continuous", "OneTime", "Unknown"}

\* RestrictedChannelForwarder::init (lines 36-103): the mode (lines 40-50,
\* any other value becomes Continuous) and the filters are read from the
\* configuration
FW_init(filters, mode) ==
    /\ ~terminated
    /\ fw_pc = "constructed"
    /\ message_filters_' = filters
    /\ config_mode' = IF mode \in {"Continuous", "OneTime"} THEN mode
                      ELSE "Continuous"
    /\ fw_pc' = "idle"
    /\ UNCHANGED <<chat, fw_running_, stopping_, last_message_id_,
                   processed_media_groups_, forwarded_count_, failed_count_,
                   batch, batch_i, cycles, forwarded_ok, resent,
                   failed_group_msgs, slept_ms, start_result>>
    /\ UNCHANGED <<track_vars, obs_vars, resolver_vars, transfer_vars, engine_vars, terminated, gw_vars>>

\* a message is posted in the source chat
NewSourceMessage(shape) ==
    /\ ~terminated
    /\ Len(chat) < MaxMsg
    /\ chat' = Append(chat, shape)
    /\ UNCHANGED <<message_filters_, fw_running_, stopping_, fw_pc,
                   last_message_id_, processed_media_groups_, forwarded_count_,
                   failed_count_, batch, batch_i, cycles, forwarded_ok, resent,
                   failed_group_msgs, config_mode, slept_ms,
                   start_result>>
    /\ UNCHANGED <<track_vars, obs_vars, resolver_vars, transfer_vars, engine_vars, terminated, gw_vars>>

\* What ChannelResolver::resolve_channel can come to (channel_resolver.cpp
\* lines 20-81): a chat id, which is 0 or not, or an exception out of
\* future.get()
ResolveResults == {"zero", "chat_id", "throws"}

\* the answers to the two send_query calls of check_send_message_permission
\* and the fields it reads from them; a field that is not read is FALSE or
\* "Other"
PermissionInputs ==
    {[get_chat |-> c, get_chat_member |-> "chatMember", status_ |-> "Other",
      can_post_messages_ |-> FALSE, is_channel_ |-> FALSE] :
         c \in {"chat", "error", "timeout"}}
    \cup {[get_chat |-> "chat", get_chat_member |-> r, status_ |-> "Other",
           can_post_messages_ |-> FALSE, is_channel_ |-> FALSE] :
              r \in {"error", "timeout"}}
    \cup {[get_chat |-> "chat", get_chat_member |-> "chatMember",
           status_ |-> "Administrator", can_post_messages_ |-> b,
           is_channel_ |-> FALSE] : b \in BOOLEAN}
    \cup {[get_chat |-> "chat", get_chat_member |-> "chatMember",
           status_ |-> "Member", can_post_messages_ |-> FALSE,
           is_channel_ |-> b] : b \in BOOLEAN}

\* a check that only looks at whether the member was found
check_send_message_permission_AnyMember(p) ==
    IF p.get_chat = "timeout" THEN "throws"
    ELSE IF p.get_chat = "error" THEN "false"
    ELSE IF p.get_chat_member = "timeout" THEN "throws"
    ELSE IF p.get_chat_member = "error" THEN "false"
    ELSE "true"

\* check_send_message_permission (lines 459-500): "true", "false", or
\* "throws" when a send_query times out
check_send_message_permission(p) ==
    IF p.get_chat = "timeout" THEN "throws"
    ELSE IF p.get_chat = "error" THEN "false"
    ELSE IF p.get_chat_member = "timeout" THEN "throws"
    ELSE IF p.get_chat_member = "error" THEN "false"
    ELSE IF p.status_ = "Administrator"
    THEN IF p.can_post_messages_ THEN "true" ELSE "false"
    ELSE IF p.status_ = "Member"
    THEN IF ~p.is_channel_ THEN "true" ELSE "false"
    ELSE "false"

\* start(), lines 115-146: "true" when the thread is to be created, "false"
\* when start returns false, "throws" when the exception of the permission
\* check leaves start
StartPreconditions(source, target, p) ==
    IF source = "throws" \/ target = "throws" THEN "false"
    ELSE IF source = "zero" THEN "false"
    ELSE IF target = "zero" THEN "false"
    ELSE IF check_send_message_permission(p) = "false" THEN "false"
    ELSE check_send_message_permission(p)

\* RestrictedChannelForwarder::start (lines 105-162).  `source` and `target`
\* are the results of the two resolutions, `p` the answers to the permission
\* check, `latest` the result of the getChatHistory of line 148.  One
\* session is followed, from start() to the return of stop(); forwarded_ok
\* is the set of messages forwarded with success in it.
FW_start(source, target, p, latest) ==
    /\ ~terminated
    /\ fw_pc = "idle"
    /\ ~fw_running_
    /\ start_result' = StartPreconditions(source, target, p)
    /\ IF StartPreconditions(source, target, p) = "true"
       THEN /\ last_message_id_' = get_latest_message_id(latest)
            /\ fw_running_' = TRUE
            /\ stopping_' = FALSE
            /\ fw_pc' = "loop"
       ELSE /\ latest = "messages"
            /\ UNCHANGED <<last_message_id_, fw_running_, stopping_, fw_pc>>
    /\ UNCHANGED <<chat, message_filters_, processed_media_groups_,
                   forwarded_count_, failed_count_, batch, batch_i, cycles,
                   forwarded_ok, resent, failed_group_msgs, config_mode,
                   slept_ms>>
    /\ UNCHANGED <<obs_vars, resolver_vars, transfer_vars, engine_vars, terminated, gw_vars>>

\* RestrictedChannelForwarder::stop (lines 164-182), up to the join
FW_stop_request ==
    /\ ~terminated
    /\ fw_running_
    /\ ~stopping_
    /\ stopping_' = TRUE
    /\ UNCHANGED <<chat, message_filters_, fw_running_, fw_pc, last_message_id_,
                   processed_media_groups_, forwarded_count_, failed_count_,
                   batch, batch_i, cycles, forwarded_ok, resent,
                   failed_group_msgs, config_mode, slept_ms,
                   start_result>>
    /\ UNCHANGED <<track_vars, obs_vars, resolver_vars, transfer_vars, engine_vars, terminated, gw_vars>>

\* is_running (lines 184-186)
is_running == fw_running_

\* stop(): the join returned (lines 173-178)
FW_stop_joined ==
    /\ ~terminated
    /\ stopping_
    /\ fw_pc = "exited"
    /\ fw_running_' = FALSE
    /\ stopping_' = FALSE
    /\ fw_pc' = "stopped"
    /\ UNCHANGED <<chat, message_filters_, last_message_id_,
                   processed_media_groups_, forwarded_count_, failed_count_,
                   batch, batch_i, cycles, forwarded_ok, resent,
                   failed_group_msgs, config_mode, slept_ms,
                   start_result>>
    /\ UNCHANGED <<track_vars, obs_vars, resolver_vars, transfer_vars, engine_vars, terminated, gw_vars>>

\* forward_worker, the loop condition and get_new_messages (lines 203-209,
\* 276-278, 288-290): the loop ends, or a batch is fetched, or get_new_messages
\* throws and control is in the catch of line 288.
FW_fetch(history) ==
    /\ ~terminated
    /\ fw_pc = "loop"
    /\ IF ~(fw_running_ /\ ~stopping_)
       THEN /\ history = "messages"
            /\ fw_pc' = "exited"
            /\ UNCHANGED <<batch, batch_i, cycles, slept_ms>>
       ELSE /\ cycles < MaxCycles
            /\ cycles' = cycles + 1
            /\ slept_ms' = 0
            /\ IF history = "messages"
               THEN LET messages == get_new_messages(last_message_id_,
                                                     max_history_messages)
                    IN  /\ batch' = messages
                        /\ batch_i' = 1
                        /\ fw_pc' = IF messages = <<>> THEN "sleep" ELSE "process"
               ELSE /\ fw_pc' = "backoff"
                    /\ batch' = <<>>
                    /\ batch_i' = 1
    /\ UNCHANGED <<chat, message_filters_, fw_running_, stopping_,
                   last_message_id_, processed_media_groups_, forwarded_count_,
                   failed_count_, forwarded_ok, resent, failed_group_msgs,
                   config_mode, start_result>>
    /\ UNCHANGED <<obs_vars, resolver_vars, transfer_vars, engine_vars, terminated, gw_vars>>

\* forward_worker, one iteration of the for loop (lines 212-275)
FW_process_message(history, outcome) ==
    /\ ~terminated
    /\ fw_pc = "process"
    /\ LET m == batch[batch_i]
           after == ProcessMessage(m, history, outcome)
       IN  /\ after.applies
           /\ last_message_id_' = after.cursor
           /\ processed_media_groups_' = after.groups
           /\ forwarded_count_' = after.forwarded
           /\ failed_count_' = after.failed
           /\ resent' = resent \cup (after.sent \cap forwarded_ok)
           /\ forwarded_ok' = forwarded_ok \cup after.ok
           /\ failed_group_msgs' = IF after.group_failed
                                   THEN failed_group_msgs \cup {m}
                                   ELSE failed_group_msgs
           /\ terminated' = after.term
           /\ batch_i' = batch_i + 1
           /\ fw_pc' = IF batch_i = Len(batch) THEN "sleep" ELSE "process"
    /\ UNCHANGED <<chat, message_filters_, fw_running_, stopping_, batch, cycles,
                   config_mode, slept_ms, start_result>>
    /\ UNCHANGED <<obs_vars, resolver_vars, transfer_vars, engine_vars, gw_vars>>

\* Line 283 reads `breaking;`.  It is no statement of the language: a build
\* that takes it for the `break` it resembles leaves the loop there, one
\* that takes it for an expression without effect goes on.
BreakingOutcomes == {"break", "none"}

\* lines 281-284: whether the loop is left at the end of a cycle
LeavesLoop(mode, messages, breaking) ==
    mode = "OneTime" /\ messages # <<>> /\ breaking = "break"

\* the loop sleeps the same interval after a failed fetch
BackoffInterval_NotDoubled == wait_time_ms_

\* line 292: sleep_for(wait_time_ms_ * 2)
BackoffInterval == wait_time_ms_ * 2

\* forward_worker, the end of a cycle (lines 280-287): the one-shot test,
\* then the sleep of the poll interval
FW_sleep(breaking) ==
    /\ ~terminated
    /\ fw_pc = "sleep"
    /\ IF LeavesLoop(config_mode, batch, breaking)
       THEN /\ fw_pc' = "exited"
            /\ UNCHANGED slept_ms
       ELSE /\ breaking = "none"
            /\ fw_pc' = "loop"
            /\ slept_ms' = wait_time_ms_
    /\ UNCHANGED <<chat, message_filters_, fw_running_, stopping_,
                   last_message_id_, processed_media_groups_, forwarded_count_,
                   failed_count_, batch, batch_i, cycles, forwarded_ok, resent,
                   failed_group_msgs, config_mode, start_result>>
    /\ UNCHANGED <<track_vars, obs_vars, resolver_vars, transfer_vars, engine_vars, terminated, gw_vars>>

\* forward_worker, the catch at the top of the loop (lines 288-293)
FW_backoff ==
    /\ ~terminated
    /\ fw_pc = "backoff"
    /\ fw_pc' = "loop"
    /\ slept_ms' = BackoffInterval
    /\ UNCHANGED <<chat, message_filters_, fw_running_, stopping_,
                   last_message_id_, processed_media_groups_, forwarded_count_,
                   failed_count_, batch, batch_i, cycles, forwarded_ok, resent,
                   failed_group_msgs, config_mode, start_result>>
    /\ UNCHANGED <<track_vars, obs_vars, resolver_vars, transfer_vars, engine_vars, terminated, gw_vars>>

(***************************************************************************)
(*                    ClientManager (client_manager.cpp)                   *)
(*                                                                         *)
(* TDLib is the environment: it answers every request sent to it at most   *)
(* once, in any order, and reports authorization states and new messages   *)
(* at any time.  An inbound object is [kind, id, origin, event]: kind "ok" *)
(* or "error" (td_api::ok, td_api::error), "result" (any other result      *)
(* type), "auth" (updateAuthorizationState carrying `event`) or            *)
(* "updateNewMessage"; id and origin are those of the request it answers.  *)
(***************************************************************************)
\* the threads that call send_query: the poll loop of the forwarder and a
\* worker of the media handler
Callers == {"forward_worker", "download_worker"}

ClientStates ==
    {"Idle", "Connecting", "WaitingPhoneNumber", "WaitingCode",
     "WaitingPassword", "Ready", "Closed", "Error"}

\* the cases of the switch of handle_authorization_state; "Other" is its default
AuthEvents ==
    {"WaitTdlibParameters", "WaitEncryptionKey", "WaitPhoneNumber", "WaitCode",
     "WaitPassword", "Ready", "LoggingOut", "Closing", "Closed", "Other"}

NoObject == [kind |-> "none", id |-> 0, origin |-> "none", event |-> "none"]

Request(id, origin) == [id |-> id, origin |-> origin]

\* the updates TDLib sends besides updateAuthorizationState, and the type
\* strings handlers are registered under
UpdateTypes == {"updateNewMessage", "updateMessageContent"}

\* the handlers passed to register_update_handler; NoHandler is an empty
\* std::function, and the value of a map entry that does not exist
UpdateHandlers == 1..MaxHandlers
NoHandler == 0

\* the objects td::ClientManager::receive can return
InboundObjects ==
    {[kind |-> k, id |-> r.id, origin |-> r.origin, event |-> "none"] :
         k \in {"ok", "error", "result"}, r \in td_pending}
    \cup {[kind |-> "auth", id |-> 0, origin |-> "none", event |-> e] :
              e \in AuthEvents}
    \cup {[kind |-> k, id |-> 0, origin |-> "none", event |-> "none"] :
              k \in UpdateTypes}

\* ClientManager::ClientManager (lines 20-24)
GatewayInit ==
    /\ gw_running_ = FALSE
    /\ client_id_ = FALSE
    /\ state_ = "Idle"
    /\ query_id_ = 0
    /\ response_handlers_ = {}
    /\ update_handlers_ = [type \in UpdateTypes |-> NoHandler]
    /\ td_pending = {}
    /\ disp_pc = "none"
    /\ disp_handler = 0
    /\ disp_object = NoObject
    /\ call_pc = [c \in Callers |-> "idle"]
    /\ call_id = [c \in Callers |-> 0]
    /\ call_got = [c \in Callers |-> NoObject]
    /\ starter_pc = "constructed"
    /\ auth_event = "none"

\* ClientManager::init (lines 33-43)
GW_init ==
    /\ ~terminated
    /\ starter_pc = "constructed"
    /\ client_id_' = TRUE
    /\ starter_pc' = "idle"
    /\ UNCHANGED <<gw_running_, state_, query_id_, response_handlers_,
                   update_handlers_, td_pending, disp_pc, disp_handler,
                   disp_object, call_pc, call_id, call_got, auth_event>>
    /\ UNCHANGED <<track_vars, obs_vars, resolver_vars, transfer_vars, engine_vars, terminated, fw_vars>>

\* ClientManager::start (lines 45-60) and the head of process_updates (lines
\* 237-275): the thread is created and sends its two requests with the
\* request ids 1 (only with a proxy configured) and 2
StartWrites(proxy_enabled) ==
    {Request(2, "internal")}
        \cup (IF proxy_enabled THEN {Request(1, "internal")} ELSE {})

GW_start(proxy_enabled) ==
    /\ ~terminated
    /\ starter_pc = "idle"
    /\ ~gw_running_
    /\ client_id_
    /\ gw_running_' = TRUE
    /\ disp_pc' = "receive"
    /\ td_pending' = td_pending \cup StartWrites(proxy_enabled)
    /\ starter_pc' = "waiting"
    /\ UNCHANGED <<client_id_, state_, query_id_, response_handlers_,
                   update_handlers_, disp_handler, disp_object, call_pc,
                   call_id, call_got, auth_event>>
    /\ UNCHANGED <<track_vars, resolver_vars, transfer_vars, engine_vars, terminated, fw_vars>>

\* the 60 seconds of start() pass (lines 61-62)
GW_start_deadline ==
    /\ ~terminated
    /\ starter_pc = "waiting"
    /\ starter_pc' = "waiting_elapsed"
    /\ UNCHANGED <<gw_running_, client_id_, state_, query_id_,
                   response_handlers_, update_handlers_, td_pending, disp_pc,
                   disp_handler, disp_object, call_pc, call_id, call_got,
                   auth_event>>
    /\ UNCHANGED <<track_vars, obs_vars, resolver_vars, transfer_vars, engine_vars, terminated, fw_vars>>

\* auth_cond_.wait_for(lock, timeout, [this] { return state_ == Ready; })
\* (lines 65-67): it returns when the predicate holds or the time is up
WaitForReturns ==
    \/ state_ = "Ready"
    \/ starter_pc = "waiting_elapsed"

\* start(), lines 65-77: wait_for returns with auth_mutex_ locked; start()
\* returns true when the predicate held, and calls stop() otherwise, still
\* holding the lock
GW_start_wait ==
    /\ ~terminated
    /\ starter_pc \in {"waiting", "waiting_elapsed"}
    /\ WaitForReturns
    /\ IF state_ = "Ready"
       THEN /\ starter_pc' = "started"
            /\ UNCHANGED gw_running_
       ELSE /\ starter_pc' = "start_stopping"
            /\ gw_running_' = FALSE
    /\ UNCHANGED <<client_id_, state_, query_id_, response_handlers_,
                   update_handlers_, td_pending, disp_pc, disp_handler,
                   disp_object, call_pc, call_id, call_got, auth_event>>
    /\ UNCHANGED <<track_vars, obs_vars, resolver_vars, transfer_vars, engine_vars, terminated, fw_vars>>

\* auth_mutex_: start() holds it from the return of wait_for to its own
\* return (the unique_lock of line 64); set_state holds it only to notify
auth_mutex_owner == IF starter_pc = "start_stopping" THEN "start" ELSE "none"

\* set_state (lines 120-136): whether it locks auth_mutex_ to notify
SetStateLocks(old_state, state) ==
    old_state # state /\ state \in {"Ready", "Error", "Closed"}

\* what locking a std::mutex the thread already owns can come to: the thread
\* blocks for ever, or the lock throws std::system_error
RelockOutcomes == {"deadlock", "throws"}

\* ClientManager::stop (lines 79-88), up to the join
GW_stop ==
    /\ ~terminated
    /\ starter_pc = "started"
    /\ gw_running_
    /\ gw_running_' = FALSE
    /\ starter_pc' = "stopping"
    /\ UNCHANGED <<client_id_, state_, query_id_, response_handlers_,
                   update_handlers_, td_pending, disp_pc, disp_handler,
                   disp_object, call_pc, call_id, call_got, auth_event>>
    /\ UNCHANGED <<track_vars, obs_vars, resolver_vars, transfer_vars, engine_vars, terminated, fw_vars>>

\* stop(), after the join (lines 89-114), called by the user ("stopping") or by
\* start() on its timeout ("start_stopping").  The set_state(Closed) of line
\* 112 assigns state_ and then locks auth_mutex_ to notify; called from
\* start(), the thread locks the mutex it owns.
GW_stop_joined(ub) ==
    /\ ~terminated
    /\ starter_pc \in {"stopping", "start_stopping"}
    /\ disp_pc = "exited"
    /\ ub \in (IF auth_mutex_owner = "start" /\ SetStateLocks(state_, "Closed")
               THEN RelockOutcomes ELSE {"none"})
    /\ client_id_' = FALSE
    /\ response_handlers_' = {}
    /\ update_handlers_' = [type \in UpdateTypes |-> NoHandler]
    /\ state_' = "Closed"
    /\ starter_pc' = CASE starter_pc = "stopping" -> "stopped"
                       [] ub = "none" -> "start_failed"
                       [] ub = "deadlock" -> "deadlocked"
                       [] OTHER -> "start_threw"
    /\ disp_pc' = "none"
    /\ UNCHANGED <<gw_running_, query_id_, td_pending, disp_handler, disp_object,
                   call_pc, call_id, call_got, auth_event>>
    /\ UNCHANGED <<track_vars, obs_vars, resolver_vars, transfer_vars, engine_vars, terminated, fw_vars>>

\* update_handlers_[type] = std::move(handler) (line 218): std::map's
\* operator[] creates the entry or assigns to the one that exists
MapAssign_KeepFirst(map, type, handler) ==
    IF map[type] = NoHandler THEN [map EXCEPT ![type] = handler] ELSE map

MapAssign(map, type, handler) == [map EXCEPT ![type] = handler]

\* register_update_handler (lines 212-221); an empty handler is ignored
GW_register_update_handler(type, handler) ==
    /\ ~terminated
    /\ update_handlers_' = IF handler = NoHandler THEN update_handlers_
                           ELSE MapAssign(update_handlers_, type, handler)
    /\ UNCHANGED <<gw_running_, client_id_, state_, query_id_,
                   response_handlers_, td_pending, disp_pc, disp_handler,
                   disp_object, call_pc, call_id, call_got, starter_pc,
                   auth_event>>
    /\ UNCHANGED <<track_vars, resolver_vars, transfer_vars, engine_vars, terminated, fw_vars>>

\* unregister_update_handler (lines 223-228)
GW_unregister_update_handler(type) ==
    /\ ~terminated
    /\ update_handlers_' = [update_handlers_ EXCEPT ![type] = NoHandler]
    /\ UNCHANGED <<gw_running_, client_id_, state_, query_id_,
                   response_handlers_, td_pending, disp_pc, disp_handler,
                   disp_object, call_pc, call_id, call_got, starter_pc,
                   auth_event>>
    /\ UNCHANGED <<track_vars, resolver_vars, transfer_vars, engine_vars, terminated, fw_vars>>

\* send_query (lines 166-177) with send_query_async (lines 192-210): the
\* next request id is taken, the handler that captures the promise of this
\* call is stored under it, and the request is sent
SQ_send(c) ==
    /\ ~terminated
    /\ call_pc[c] \in {"idle", "returned", "thrown", "failed"}
    /\ IF ~client_id_
       THEN \* "客户端未初始化"
            /\ call_pc[c] # "failed"
            /\ call_pc' = [call_pc EXCEPT ![c] = "failed"]
            /\ call_id' = [call_id EXCEPT ![c] = 0]
            /\ call_got' = [call_got EXCEPT ![c] = NoObject]
            /\ UNCHANGED <<query_id_, response_handlers_, td_pending>>
       ELSE /\ query_id_ < MaxQueries
            /\ query_id_' = query_id_ + 1
            /\ response_handlers_' = response_handlers_ \cup {query_id_'}
            /\ td_pending' = td_pending \cup {Request(query_id_', "query")}
            /\ call_pc' = [call_pc EXCEPT ![c] = "waiting"]
            /\ call_id' = [call_id EXCEPT ![c] = query_id_']
            /\ call_got' = [call_got EXCEPT ![c] = NoObject]
    /\ UNCHANGED <<gw_running_, client_id_, state_, update_handlers_, disp_pc,
                   disp_handler, disp_object, starter_pc, auth_event>>
    /\ UNCHANGED <<track_vars, resolver_vars, transfer_vars, engine_vars, terminated, fw_vars>>

\* send_query, line 181: wait_for returns; the call returns the value of the
\* future (line 189) or goes on to the timeout branch
SQ_wait_for(c) ==
    /\ ~terminated
    /\ call_pc[c] = "waiting"
    /\ call_pc' = [call_pc EXCEPT ![c] = IF call_got[c] # NoObject
                                         THEN "returned" ELSE "timedout"]
    /\ UNCHANGED <<gw_running_, client_id_, state_, query_id_,
                   response_handlers_, update_handlers_, td_pending, disp_pc,
                   disp_handler, disp_object, call_id, call_got, starter_pc,
                   auth_event>>
    /\ UNCHANGED <<track_vars, obs_vars, resolver_vars, transfer_vars, engine_vars, terminated, fw_vars>>

\* send_query, lines 181-185: the handler is erased under response_mutex_ and
\* "请求超时" is thrown; the promise of the call is destroyed
SQ_throw_timeout(c) ==
    /\ ~terminated
    /\ call_pc[c] = "timedout"
    /\ response_handlers_' = response_handlers_ \ {call_id[c]}
    /\ call_pc' = [call_pc EXCEPT ![c] = "thrown"]
    /\ UNCHANGED <<gw_running_, client_id_, state_, query_id_, update_handlers_,
                   td_pending, disp_pc, disp_handler, disp_object, call_id,
                   call_got, starter_pc, auth_event>>
    /\ UNCHANGED <<track_vars, obs_vars, resolver_vars, transfer_vars, engine_vars, terminated, fw_vars>>

\* a mapping of the authorization states that is off by one step
AuthStateFor_Shifted(event, current, phone_configured) ==
    CASE event = "WaitTdlibParameters" -> "Connecting"
      [] event = "WaitPhoneNumber" ->
             IF phone_configured THEN "WaitingPhoneNumber" ELSE "Error"
      [] event = "WaitCode" -> "WaitingPhoneNumber"
      [] event = "WaitPassword" -> "WaitingCode"
      [] event = "Ready" -> "Ready"
      [] event \in {"LoggingOut", "Closing"} -> "Idle"
      [] event = "Closed" -> "Closed"
      [] OTHER -> current

\* handle_authorization_state (lines 350-444): the state it leaves in state_
AuthStateFor(event, current, phone_configured) ==
    CASE event = "WaitTdlibParameters" -> "Connecting"
      [] event = "WaitPhoneNumber" ->
             IF phone_configured THEN "WaitingPhoneNumber" ELSE "Error"
      [] event = "WaitCode" -> "WaitingCode"
      [] event = "WaitPassword" -> "WaitingPassword"
      [] event = "Ready" -> "Ready"
      [] event \in {"LoggingOut", "Closing"} -> "Idle"
      [] event = "Closed" -> "Closed"
      [] OTHER -> current

\* handle_authorization_state: whether one of its set_state calls locks
\* auth_mutex_; without a phone number the state is set to
\* WaitingPhoneNumber and then to Error (lines 369, 383)
AuthLocks(event, current, phone_configured) ==
    \/ event = "WaitPhoneNumber" /\ ~phone_configured
    \/ SetStateLocks(current, AuthStateFor(event, current, phone_configured))

\* handle_authorization_state: whether it calls send_code or send_password,
\* which take the next request id in send_query_async (lines 138-164)
AuthTakesQueryId(event) == event \in {"WaitCode", "WaitPassword"}

\* handle_authorization_state: the requests it sends
AuthSends(event, phone_configured) ==
    CASE event = "WaitEncryptionKey" -> {Request(3, "internal")}
      [] event = "WaitPhoneNumber" /\ phone_configured ->
             {Request(4, "internal")}
      [] AuthTakesQueryId(event) -> {Request(query_id_ + 1, "internal")}
      [] OTHER -> {}

\* std::map::begin(): the handler with the lowest key
FirstHandler(handlers) == CHOOSE k \in handlers : \A j \in handlers : k <= j

\* process_response, lines 319-325: the entry of "updateNewMessage" is looked
\* up for an updateNewMessage and its handler is called with the object; no
\* other type is looked up
UpdateHandlerCalled(object) ==
    IF object.kind = "updateNewMessage"
    THEN update_handlers_["updateNewMessage"] ELSE NoHandler

\* process_response: whether the object is read after it was moved from; the
\* error object at line 314, the update handed to its handler at line 323
ReadsMovedObject(object) ==
    \/ object.kind = "error"
    \/ UpdateHandlerCalled(object) # NoHandler

\* what the comparisons on a moved-from object can come to: the process
\* ends, or they are false, or the test of line 329 is true
MovedObjectOutcomes == {"crash", "no_match", "match"}

\* process_updates calls receive() again when process_response has returned
\* (lines 278-289)
ReceivesNextItem_BeforeSinkRan == disp_pc \in {"receive", "invoke"}

ReceivesNextItem == disp_pc = "receive"

\* response_handlers_.erase(it) (line 340)
EraseHandler_Keep(handlers, key) == handlers

EraseHandler(handlers, key) == handlers \ {key}

\* process_updates, one turn of its loop (lines 278-289) with
\* process_response (lines 294-348) up to the end of the locked block, or
\* with handle_authorization_state; the thread stays blocked in set_state
\* when start() holds auth_mutex_.  `phone_configured` says whether
\* Config::phone_number() is non-empty.
process_response(object, ub, phone_configured) ==
    /\ ~terminated
    /\ ReceivesNextItem
    /\ gw_running_
    /\ object \in InboundObjects
    /\ ub \in (IF ReadsMovedObject(object) THEN MovedObjectOutcomes ELSE {"none"})
    /\ phone_configured \/ (object.kind = "auth" /\ object.event = "WaitPhoneNumber")
    /\ IF object.kind = "auth"
       THEN \* lines 300-304
            /\ AuthTakesQueryId(object.event) => query_id_ < MaxQueries
            /\ state_' = AuthStateFor(object.event, state_, phone_configured)
            /\ auth_event' = object.event
            /\ query_id_' = IF AuthTakesQueryId(object.event)
                            THEN query_id_ + 1 ELSE query_id_
            /\ td_pending' = td_pending \cup AuthSends(object.event, phone_configured)
            /\ disp_pc' = IF AuthLocks(object.event, state_, phone_configured)
                             /\ auth_mutex_owner = "start"
                          THEN "blocked" ELSE disp_pc
            /\ UNCHANGED <<response_handlers_, disp_handler, disp_object,
                           terminated>>
       ELSE /\ td_pending' = td_pending \ {Request(object.id, object.origin)}
            /\ UNCHANGED <<state_, auth_event, query_id_>>
            /\ IF ub = "crash"
               THEN /\ terminated' = TRUE
                    /\ UNCHANGED <<response_handlers_, disp_pc, disp_handler,
                                   disp_object>>
               ELSE IF (object.kind = "ok" \/ ub = "match")
                       /\ response_handlers_ # {}
               THEN \* lines 335-341
                    /\ disp_handler' = FirstHandler(response_handlers_)
                    /\ response_handlers_' =
                           EraseHandler(response_handlers_,
                                        FirstHandler(response_handlers_))
                    /\ disp_object' = object
                    /\ disp_pc' = "invoke"
                    /\ UNCHANGED terminated
               ELSE UNCHANGED <<response_handlers_, disp_pc, disp_handler,
                                disp_object, terminated>>
    /\ UNCHANGED <<gw_running_, client_id_, update_handlers_, call_pc, call_id,
                   call_got, starter_pc>>
    /\ UNCHANGED <<track_vars, resolver_vars, transfer_vars, engine_vars, fw_vars>>

\* the calls of send_query whose promise the handler stored under `key` refers to
LiveCalls(key) ==
    {c \in Callers : call_id[c] = key /\ call_pc[c] \in {"waiting", "timedout"}}

\* what promise.set_value on a destroyed promise can come to
DanglingOutcomes == {"crash", "silent"}

\* process_response, lines 344-346: the handler moved out of the map is
\* invoked outside the lock.  It sets the promise its send_query call holds
\* on its stack; when that call has thrown, the promise is gone.
invoke_handler(ub) ==
    /\ ~terminated
    /\ disp_pc = "invoke"
    /\ ub \in (IF LiveCalls(disp_handler) = {} THEN DanglingOutcomes ELSE {"none"})
    /\ call_got' = [c \in Callers |->
                       IF c \in LiveCalls(disp_handler) THEN disp_object
                                                        ELSE call_got[c]]
    /\ terminated' = (ub = "crash")
    /\ disp_pc' = "receive"
    /\ disp_handler' = 0
    /\ disp_object' = NoObject
    /\ UNCHANGED <<gw_running_, client_id_, state_, query_id_,
                   response_handlers_, update_handlers_, td_pending, call_pc,
                   call_id, starter_pc, auth_event>>
    /\ UNCHANGED <<track_vars, resolver_vars, transfer_vars, engine_vars, fw_vars>>

\* process_updates: the loop ends when running_ is false (lines 278, 291)
process_updates_exit ==
    /\ ~terminated
    /\ disp_pc = "receive"
    /\ ~gw_running_
    /\ disp_pc' = "exited"
    /\ UNCHANGED <<gw_running_, client_id_, state_, query_id_,
                   response_handlers_, update_handlers_, td_pending,
                   disp_handler, disp_object, call_pc, call_id, call_got,
                   starter_pc, auth_event>>
    /\ UNCHANGED <<track_vars, obs_vars, resolver_vars, transfer_vars, engine_vars, terminated, fw_vars>>

(***************************************************************************)
(* The history of the gateway.  The operations of the gateway do not       *)
(* mention it; a specification conjoins to an operation what it records,   *)
(* or leaves the history unchanged.                                        *)
(***************************************************************************)
\* the request ids in use: 1..4 are written by the dispatch thread itself
RequestIds == 1..(MaxQueries + 4)

NoUpdateCall == [type |-> "none", handler |-> NoHandler]

ObserverInit ==
    /\ registered = [type \in UpdateTypes |-> NoHandler]
    /\ replaced = [type \in UpdateTypes |-> NoHandler]
    /\ disp_update = NoUpdateCall
    /\ received = 0
    /\ disp_seq = 0
    /\ handled_seq = 0
    /\ invoked_sinks = {}
    /\ written = [id \in RequestIds |-> 0]

\* Nothing has been fetched or attempted before start() (line 148 sets the
\* cursor the session starts from).
TrackInit ==
    /\ startup_cursor = 0
    /\ fetched = {}
    /\ album_fetched = {}
    /\ cycle_failed = {}

\* start() has set last_message_id_ (line 148)
StartNoted ==
    /\ startup_cursor' = last_message_id_'
    /\ UNCHANGED <<fetched, album_fetched, cycle_failed>>

\* a poll cycle has begun with the call of get_new_messages (line 206)
FetchNoted ==
    /\ IF cycles' = cycles
       THEN UNCHANGED <<fetched, cycle_failed>>
       ELSE /\ fetched' = fetched \cup Range(batch')
            /\ cycle_failed' = {}
    /\ UNCHANGED <<startup_cursor, album_fetched>>

\* one iteration of the for loop has run: forward_media_group returned
\* false for the album of the message (lines 237-240), or it did not
AttemptNoted(history, outcome) ==
    /\ cycle_failed' =
           IF ProcessMessage(batch[batch_i], history, outcome).group_failed
           THEN cycle_failed \cup {get_media_group_id(batch[batch_i])}
           ELSE cycle_failed
    /\ album_fetched' =
           IF get_media_group_id(batch[batch_i]) # 0
           THEN album_fetched
                    \cup ProcessMessage(batch[batch_i], history, outcome).handed
           ELSE album_fetched
    /\ UNCHANGED <<startup_cursor, fetched>>

\* one more request with each of the ids of `requests` has been written
Wrote(requests) ==
    written' = [id \in RequestIds |->
                   IF \E r \in requests : r.id = id
                   THEN Min(written[id] + 1, 2) ELSE written[id]]

\* register_update_handler(type, handler) with a handler that is not empty
\* makes it the handler registered for the type
RegistrationNoted(type, handler) ==
    /\ registered' = IF handler = NoHandler THEN registered
                     ELSE [registered EXCEPT ![type] = handler]
    /\ replaced' = IF handler = NoHandler THEN replaced
                   ELSE [replaced EXCEPT ![type] = registered[type]]
    /\ UNCHANGED <<disp_update, received, disp_seq, handled_seq, invoked_sinks,
                   written>>

UnregistrationNoted(type) ==
    /\ registered' = [registered EXCEPT ![type] = NoHandler]
    /\ replaced' = [replaced EXCEPT ![type] = NoHandler]
    /\ UNCHANGED <<disp_update, received, disp_seq, handled_seq, invoked_sinks,
                   written>>

\* process_response(object): the item is counted, the update handler called
\* for it is noted, and the item moved into disp_object keeps its number
ItemNoted(object) ==
    /\ received < MaxInbound
    /\ received' = received + 1
    /\ disp_update' = IF UpdateHandlerCalled(object) # NoHandler
                      THEN [type |-> object.kind,
                            handler |-> UpdateHandlerCalled(object)]
                      ELSE NoUpdateCall
    /\ handled_seq' = IF UpdateHandlerCalled(object) # NoHandler
                      THEN received' ELSE handled_seq
    /\ disp_seq' = IF disp_handler' # disp_handler THEN received' ELSE disp_seq
    /\ UNCHANGED <<registered, replaced, invoked_sinks, written>>

\* invoke_handler: the sink moved out of the map is called for the item
\* in disp_object
SinkOrderNoted ==
    /\ handled_seq' = disp_seq
    /\ UNCHANGED <<registered, replaced, disp_update, received, disp_seq,
                   invoked_sinks, written>>

\* invoke_handler: the sink stored under disp_handler is called
SinkCallNoted ==
    /\ invoked_sinks' = invoked_sinks \cup {disp_handler}
    /\ UNCHANGED <<registered, replaced, disp_update, received, disp_seq,
                   handled_seq, written>>

\* the requests an operation writes to TDLib
WritesNoted(requests) ==
    /\ Wrote(requests)
    /\ UNCHANGED <<registered, replaced, disp_update, received, disp_seq,
                   handled_seq, invoked_sinks>>

(***************************************************************************)
(*              ChannelResolver (src/src/channel_resolver.cpp)             *)
(***************************************************************************)
\* the identifier strings passed to resolve_channel / resolve_channel_sync
ChannelIdentifiers == {"-1001", "-100", "@a", "a", "t.me/a", "t.me/ "}

\* what searchPublicChat answers with: the id_ of the chat found
ChatIds == {-1001, -1002}

\* no id: the value of a map entry that does not exist, of a call that threw
NoId == 0

ResolverThreads == 1..MaxResolverThreads

ResolverInit ==
    /\ channel_cache_ = [s \in ChannelIdentifiers |-> NoId]
    /\ rc_pc = [c \in ResolverThreads |-> "idle"]
    /\ rc_arg = [c \in ResolverThreads |-> "a"]
    /\ rc_id = [c \in ResolverThreads |-> NoId]
    /\ rc_ret = [c \in ResolverThreads |-> NoId]
    /\ rc_backend = [c \in ResolverThreads |-> FALSE]
    /\ rc_later = [c \in ResolverThreads |-> FALSE]
    /\ rc_calls = 0
    /\ first_returned = [s \in ChannelIdentifiers |-> NoId]

\* is_valid_channel_id: the prefix "-100" followed by at least one digit,
\* and digits only
is_valid_channel_id(id_str) == id_str = "-1001"

\* std::stoll of an identifier that is_valid_channel_id accepts
stoll(id_str) == IF id_str = "-1001" THEN -1001 ELSE NoId

\* the username resolve_channel_sync asks the backend for (lines 55-69):
\* the capture of t\.me/([^/\s]+) for a link, "throws" when the expression
\* does not match (extract_username_from_link); the text after '@';
\* the identifier itself otherwise
username(channel_identifier) ==
    CASE channel_identifier = "t.me/a" -> "a"
      [] channel_identifier = "t.me/ " -> "throws"
      [] channel_identifier = "@a"     -> "a"
      [] OTHER                         -> channel_identifier

\* get_chat_id_by_username: the chat id, or the ChannelError of an error
\* response, or the exception of a send_query that timed out
BackendResults ==
    [kind : {"chat"}, id_ : ChatIds]
        \cup [kind : {"error", "timeout"}, id_ : {NoId}]

\* the id a call returns becomes the id known for its identifier, unless
\* one is known since the last clear_cache
NoteReturned(known, s, id) ==
    IF known[s] = NoId THEN [known EXCEPT ![s] = id] ELSE known

\* resolve_channel_sync, the cache lookup under cache_mutex_ (lines 31-38):
\* a hit returns the entry
RC_lookup(c, s) ==
    /\ rc_pc[c] = "idle"
    /\ rc_calls < MaxResolves
    /\ rc_calls' = rc_calls + 1
    /\ rc_arg' = [rc_arg EXCEPT ![c] = s]
    /\ rc_backend' = [rc_backend EXCEPT ![c] = FALSE]
    /\ rc_later' = [rc_later EXCEPT ![c] = first_returned[s] # NoId]
    /\ rc_id' = [rc_id EXCEPT ![c] = NoId]
    /\ IF channel_cache_[s] # NoId
       THEN /\ rc_ret' = [rc_ret EXCEPT ![c] = channel_cache_[s]]
            /\ first_returned' = NoteReturned(first_returned, s, channel_cache_[s])
            /\ UNCHANGED rc_pc
       ELSE /\ rc_ret' = [rc_ret EXCEPT ![c] = NoId]
            /\ rc_pc' = [rc_pc EXCEPT ![c] = "miss"]
            /\ UNCHANGED first_returned
    /\ UNCHANGED channel_cache_
    /\ UNCHANGED <<engine_vars, terminated, transfer_vars, fw_vars, gw_vars,
                   obs_vars, track_vars>>

\* resolve_channel_sync after a miss (lines 41-72): the id of a numeric
\* identifier, or the answer of the backend for the username, outside
\* cache_mutex_
RC_resolve(c, r) ==
    /\ rc_pc[c] = "miss"
    /\ LET s == rc_arg[c]
           asks == ~is_valid_channel_id(s) /\ username(s) # "throws"
           id == IF is_valid_channel_id(s) THEN stoll(s)
                 ELSE IF asks /\ r.kind = "chat" THEN r.id_ ELSE NoId
       IN  /\ rc_backend' = [rc_backend EXCEPT ![c] = asks]
           /\ rc_id' = [rc_id EXCEPT ![c] = id]
           /\ rc_pc' = [rc_pc EXCEPT ![c] = IF id = NoId THEN "idle" ELSE "store"]
    /\ UNCHANGED <<channel_cache_, rc_arg, rc_ret, rc_later, rc_calls,
                   first_returned>>
    /\ UNCHANGED <<engine_vars, terminated, transfer_vars, fw_vars, gw_vars,
                   obs_vars, track_vars>>

\* resolve_channel_sync, channel_cache_[channel_identifier] = channel_id
\* under cache_mutex_ and the return (lines 45-51, 74-80)
RC_store(c) ==
    /\ rc_pc[c] = "store"
    /\ channel_cache_' = [channel_cache_ EXCEPT ![rc_arg[c]] = rc_id[c]]
    /\ rc_ret' = [rc_ret EXCEPT ![c] = rc_id[c]]
    /\ first_returned' = NoteReturned(first_returned, rc_arg[c], rc_id[c])
    /\ rc_pc' = [rc_pc EXCEPT ![c] = "idle"]
    /\ UNCHANGED <<rc_arg, rc_id, rc_backend, rc_later, rc_calls>>
    /\ UNCHANGED <<engine_vars, terminated, transfer_vars, fw_vars, gw_vars,
                   obs_vars, track_vars>>

\* clear_cache (lines 83-87)
clear_cache ==
    /\ \E s \in ChannelIdentifiers : channel_cache_[s] # NoId
    /\ channel_cache_' = [s \in ChannelIdentifiers |-> NoId]
    /\ first_returned' = [s \in ChannelIdentifiers |-> NoId]
    /\ rc_later' = [c \in ResolverThreads |-> FALSE]
    /\ UNCHANGED <<rc_pc, rc_arg, rc_id, rc_ret, rc_backend, rc_calls>>
    /\ UNCHANGED <<engine_vars, terminated, transfer_vars, fw_vars, gw_vars,
                   obs_vars, track_vars>>

(***************************************************************************)
(*                           Specifications                                *)
(***************************************************************************)
Init ==
    /\ terminated = FALSE
    /\ EngineInit
    /\ TransferInit
    /\ ForwarderInit
    /\ GatewayInit
    /\ ObserverInit
    /\ TrackInit
    /\ ResolverInit

EngineNext ==
    \/ MH_start
    \/ \E m \in Msgs : download_media(m)
    \/ \E messages \in GroupInputs, has_group_id \in BOOLEAN :
           download_media_group_call(messages, has_group_id)
    \/ download_media_group_step
    \/ \E w \in DownloadWorkers : download_worker(w)

SpecEngine == Init /\ [][EngineNext]_vars

\* The scheduler runs every thread that can take a step: the worker threads
\* and the join thread are ordinary std::thread objects.
FairSpecEngine ==
    /\ Init
    /\ [][EngineNext]_vars
    /\ WF_vars(MH_start)
    /\ WF_vars(download_media_group_step)
    /\ \A w \in DownloadWorkers : WF_vars(download_worker(w))

\* the forwarder in the mode `modes` allows
ForwarderSteps(modes) ==
    \/ \E filters \in FilterConfigs, mode \in modes : FW_init(filters, mode)
    \/ \E shape \in MessageShapes : NewSourceMessage(shape)
    \/ \E source, target \in ResolveResults, p \in PermissionInputs,
          latest \in {"messages", "error"} :
           FW_start(source, target, p, latest) /\ UNCHANGED track_vars
    \/ FW_stop_request
    \/ FW_stop_joined
    \/ \E history \in HistoryResults :
           FW_fetch(history) /\ UNCHANGED track_vars
    \/ \E history \in HistoryResults, outcome \in ForwardOutcomes :
           FW_process_message(history, outcome) /\ UNCHANGED track_vars
    \/ \E breaking \in BreakingOutcomes : FW_sleep(breaking)
    \/ FW_backoff

\* continuous mode, with the history of what was fetched and attempted
CyclesNext ==
    \/ \E filters \in FilterConfigs : FW_init(filters, "Continuous")
    \/ \E shape \in MessageShapes : NewSourceMessage(shape)
    \/ \E source, target \in ResolveResults, p \in PermissionInputs,
          latest \in {"messages", "error"} :
           FW_start(source, target, p, latest) /\ StartNoted
    \/ FW_stop_request
    \/ FW_stop_joined
    \/ \E history \in HistoryResults : FW_fetch(history) /\ FetchNoted
    \/ \E history \in HistoryResults, outcome \in ForwardOutcomes :
           /\ FW_process_message(history, outcome)
           /\ AttemptNoted(history, outcome)
    \/ \E breaking \in BreakingOutcomes : FW_sleep(breaking)
    \/ FW_backoff

SpecCycles == Init /\ [][CyclesNext]_vars

\* continuous mode
ForwarderNext == ForwarderSteps({"Continuous", "Unknown"})

SpecForwarder == Init /\ [][ForwarderNext]_vars

\* The upload side of the MediaHandler: upload_media with the pool of
\* upload_worker threads, and the threads of upload_media_group.  The tasks
\* are created by download_media; the groups are one photo each.
OnePhoto == <<[kind |-> "Photo", caption |-> ""]>>

UploadNext ==
    \/ MH_start
    \/ download_media(1)
    \/ \E t \in TaskIds : upload_media(t)
    \/ \E w \in UploadWorkers : upload_worker(w)
    \/ upload_media_group(OnePhoto, MaxAlbumThreads)
    \/ \E k \in 1..MaxAlbumThreads, result \in AlbumSendResults :
           upload_media_group_thread(k, result)

SpecUpload == Init /\ [][UploadNext]_vars

\* The two pools of the MediaHandler and stop()
ShutdownNext ==
    \/ MH_start
    \/ \E m \in Msgs : download_media(m)
    \/ \E w \in DownloadWorkers : download_worker(w)
    \/ \E t \in TaskIds : upload_media(t)
    \/ \E w \in UploadWorkers : upload_worker(w)
    \/ MH_stop
    \/ MH_stop_joined

SpecShutdown == Init /\ [][ShutdownNext]_vars

\* One call of upload_media_group, for every group of up to MaxAlbum tasks
AlbumInputs == SeqsUpTo(GroupMembers, MaxAlbum)

AlbumNext ==
    \/ /\ albums = <<>>
       /\ \E tasks_ \in AlbumInputs : upload_media_group(tasks_, 1)
    \/ \E result \in AlbumSendResults : upload_media_group_thread(1, result)

SpecAlbum == Init /\ [][AlbumNext]_vars

\* one-shot mode
OneShotNext == ForwarderSteps({"OneTime"})

SpecOneShot == Init /\ [][OneShotNext]_vars

\* one-shot mode with nobody calling stop(): the forwarder is left to itself
\* after start(), as in main, whose wait loop only reads is_running()
SelfEndNext ==
    \/ \E filters \in FilterConfigs : FW_init(filters, "OneTime")
    \/ \E shape \in MessageShapes : NewSourceMessage(shape)
    \/ \E source, target \in ResolveResults, p \in PermissionInputs,
          latest \in {"messages", "error"} :
           FW_start(source, target, p, latest) /\ UNCHANGED track_vars
    \/ \E history \in HistoryResults :
           FW_fetch(history) /\ UNCHANGED track_vars
    \/ \E history \in HistoryResults, outcome \in ForwardOutcomes :
           FW_process_message(history, outcome) /\ UNCHANGED track_vars
    \/ \E breaking \in BreakingOutcomes : FW_sleep(breaking)
    \/ FW_backoff

\* the forward_worker thread keeps running while it can take a step
FairSpecSelfEnd ==
    /\ Init
    /\ [][SelfEndNext]_vars
    /\ WF_vars(\E history \in HistoryResults :
                   FW_fetch(history) /\ UNCHANGED track_vars)
    /\ WF_vars(\E history \in HistoryResults, outcome \in ForwardOutcomes :
                   FW_process_message(history, outcome) /\ UNCHANGED track_vars)
    /\ WF_vars(\E breaking \in BreakingOutcomes : FW_sleep(breaking))
    /\ WF_vars(FW_backoff)

\* The channel resolver: resolve_channel runs resolve_channel_sync on a thread
\* of its own (std::async, line 22), so calls overlap
ResolverNext ==
    \/ \E c \in ResolverThreads, s \in ChannelIdentifiers : RC_lookup(c, s)
    \/ \E c \in ResolverThreads, r \in BackendResults : RC_resolve(c, r)
    \/ \E c \in ResolverThreads : RC_store(c)
    \/ clear_cache

SpecResolver == Init /\ [][ResolverNext]_vars

\* The request path of the gateway: the calls of send_query and the dispatch
\* of what TDLib sends back, once the authorization has reached Ready.
RequestInbound ==
    {object \in InboundObjects : object.kind = "auth" => object.event = "Ready"}

GatewayNext ==
    \/ GW_init
    \/ \E proxy_enabled \in BOOLEAN :
           GW_start(proxy_enabled) /\ UNCHANGED obs_vars
    \/ GW_start_deadline
    \/ GW_start_wait
    \/ GW_stop
    \/ \E ub \in RelockOutcomes \cup {"none"} : GW_stop_joined(ub)
    \/ GW_register_update_handler("updateNewMessage", 1) /\ UNCHANGED obs_vars
    \/ GW_unregister_update_handler("updateNewMessage") /\ UNCHANGED obs_vars
    \/ \E c \in Callers : SQ_send(c) /\ UNCHANGED obs_vars
    \/ \E c \in Callers : SQ_wait_for(c)
    \/ \E c \in Callers : SQ_throw_timeout(c)
    \/ \E object \in RequestInbound, ub \in MovedObjectOutcomes \cup {"none"} :
           process_response(object, ub, TRUE) /\ UNCHANGED obs_vars
    \/ \E ub \in DanglingOutcomes \cup {"none"} :
           invoke_handler(ub) /\ UNCHANGED obs_vars
    \/ process_updates_exit

SpecGateway == Init /\ [][GatewayNext]_vars

\* The update handlers of the gateway: register_update_handler and
\* unregister_update_handler, called at any time with any type and handler,
\* and the dispatch of the updates TDLib sends
UpdateInbound == {object \in InboundObjects : object.kind \in UpdateTypes}

UpdatesNext ==
    \/ GW_init
    \/ \E proxy_enabled \in BOOLEAN :
           GW_start(proxy_enabled) /\ UNCHANGED obs_vars
    \/ \E type \in UpdateTypes, handler \in UpdateHandlers \cup {NoHandler} :
           GW_register_update_handler(type, handler)
               /\ RegistrationNoted(type, handler)
    \/ \E type \in UpdateTypes :
           GW_unregister_update_handler(type) /\ UnregistrationNoted(type)
    \/ \E object \in UpdateInbound, ub \in MovedObjectOutcomes \cup {"none"} :
           process_response(object, ub, TRUE) /\ ItemNoted(object)

SpecUpdates == Init /\ [][UpdatesNext]_vars

AuthInbound == {object \in InboundObjects : object.kind = "auth"}

\* The dispatch thread of the gateway and the order in which it handles what
\* TDLib sends: two threads call send_query, an update handler is
\* registered, and responses and updates come in in any order
DispatchInbound == {object \in InboundObjects : object.kind # "auth"}

DispatchNext ==
    \/ GW_init
    \/ GW_start(FALSE) /\ UNCHANGED obs_vars
    \/ GW_register_update_handler("updateNewMessage", 1)
           /\ RegistrationNoted("updateNewMessage", 1)
    \/ \E c \in Callers : SQ_send(c) /\ UNCHANGED obs_vars
    \/ \E c \in Callers : SQ_wait_for(c)
    \/ \E object \in DispatchInbound, ub \in MovedObjectOutcomes \cup {"none"} :
           process_response(object, ub, TRUE) /\ ItemNoted(object)
    \/ \E ub \in DanglingOutcomes \cup {"none"} :
           invoke_handler(ub) /\ SinkOrderNoted

SpecDispatch == Init /\ [][DispatchNext]_vars

\* The completion sinks of the gateway: the threads calling send_query, their
\* timeouts, and the responses of TDLib in any order
ResponseInbound ==
    {object \in InboundObjects : object.kind \in {"ok", "error", "result"}}

SinksNext ==
    \/ GW_init
    \/ GW_start(FALSE) /\ UNCHANGED obs_vars
    \/ \E c \in Callers : SQ_send(c) /\ UNCHANGED obs_vars
    \/ \E c \in Callers : SQ_wait_for(c)
    \/ \E c \in Callers : SQ_throw_timeout(c)
    \/ \E object \in ResponseInbound, ub \in MovedObjectOutcomes \cup {"none"} :
           process_response(object, ub, TRUE) /\ UNCHANGED obs_vars
    \/ \E ub \in DanglingOutcomes \cup {"none"} :
           invoke_handler(ub) /\ SinkCallNoted

SpecSinks == Init /\ [][SinksNext]_vars

\* The requests the gateway writes to TDLib in one session: those of the
\* dispatch thread at its start and on the authorization states, in any
\* order, and those of the threads calling send_query
RequestIdsNext ==
    \/ GW_init
    \/ \E proxy_enabled \in BOOLEAN :
           GW_start(proxy_enabled) /\ WritesNoted(StartWrites(proxy_enabled))
    \/ \E c \in Callers :
           SQ_send(c) /\ WritesNoted(td_pending' \ td_pending)
    \/ \E object \in AuthInbound, phone_configured \in BOOLEAN :
           /\ process_response(object, "none", phone_configured)
           /\ WritesNoted(AuthSends(object.event, phone_configured))

SpecRequestIds == Init /\ [][RequestIdsNext]_vars

\* The authorization path of the gateway: start(), stop() and the
\* authorization states TDLib reports, in any order.
AuthNext ==
    \/ GW_init
    \/ \E proxy_enabled \in BOOLEAN :
           GW_start(proxy_enabled) /\ UNCHANGED obs_vars
    \/ GW_start_deadline
    \/ GW_start_wait
    \/ GW_stop
    \/ \E ub \in RelockOutcomes \cup {"none"} : GW_stop_joined(ub)
    \/ \E object \in AuthInbound, phone_configured \in BOOLEAN :
           process_response(object, "none", phone_configured)
               /\ UNCHANGED obs_vars
    \/ process_updates_exit

SpecAuth == Init /\ [][AuthNext]_vars

\* The threads of the program keep running and the time of start() passes;
\* what TDLib reports, and when, is not constrained.
FairSpecAuth ==
    /\ Init
    /\ [][AuthNext]_vars
    /\ WF_vars(GW_start_deadline)
    /\ WF_vars(GW_start_wait)
    /\ WF_vars(process_updates_exit)
    /\ WF_vars(\E ub \in RelockOutcomes \cup {"none"} : GW_stop_joined(ub))

(***************************************************************************)
(*                              The claims                                 *)
(***************************************************************************)
TasksInState(st) == {t \in 1..Len(tasks) : tasks[t].state = st}
TasksHeldByWorkers == {dl_task[w] : w \in DownloadWorkers} \ {0}
GroupMessages == [i \in 1..Len(grp.tasks_) |-> tasks[grp.tasks_[i]].message]

\* C1 -- Once download_media_group(m1..mn) has queued its members on a
\* running engine, the group future is eventually resolved with a
\* MediaGroupTask whose task list holds the members in the input order
\* m1..mn.  (Stated with the delivery the claim presupposes; checked under
\* FairSpecEngine.)
C1_GroupDeliveredInInputOrder ==
    (grp.pc = "join") ~> (grp.promise = "value" /\ GroupMessages = grp.input)

C3_EveryTaskEventuallyTerminal ==
    \A t \in TaskIds :
        (Len(tasks) >= t /\ mh_running_)
            ~> (/\ Len(tasks) >= t
                /\ tasks[t].state \in TerminalStates
                /\ promises[t].state = "value")

\* C4 -- Tasks leave download_queue_ in the order download_media queued them:
\* task ids are given in queueing order, so the k-th task popped by any
\* worker is the k-th task that was queued.
C4_DequeueIsFIFO ==
    \A k \in 1..Len(dequeue_log) : dequeue_log[k] = k

\* C4 witness: tasks were popped by two workers while a later one still waits.
C4_Witness ==
    /\ Len(dequeue_log) >= 2
    /\ \A w \in DownloadWorkers : dl_task[w] # 0
    /\ download_queue_ # <<>>

\* C5 -- The cursor last_message_id_ never decreases over the run of the poll
\* loop: every step taken while forward_worker runs (a successful forward, a
\* skip, a failed attempt, an exception, the sleep and the retry that follow)
\* leaves it at least as large as it was.
C5_CursorNeverDecreases ==
    [][fw_pc # "idle" => last_message_id_' >= last_message_id_]_vars

\* the cursor has advanced, an attempt has failed, and the loop has polled again
C5_Witness ==
    /\ last_message_id_ > 1
    /\ forwarded_count_ > 0
    /\ failed_count_ > 0
    /\ cycles >= 2
    /\ fw_pc = "process"

\* C6 -- Within one session, no send to the target chat is issued for a
\* message that was already forwarded with success, over any sequence of poll
\* cycles; a message forwarded with success is at or below the cursor, and
\* the album it belongs to, if any, is in processed_media_groups_.
C6_NoSecondSend ==
    /\ resent = {}
    /\ \A m \in forwarded_ok :
          /\ m <= last_message_id_
          /\ chat[m].group # 0 => chat[m].group \in processed_media_groups_

\* a text message was forwarded, and a later poll cycle, whose history window
\* still holds it, has fetched a batch without it
C6_Witness ==
    /\ fw_pc = "process"
    /\ cycles >= 2
    /\ \E m \in forwarded_ok :
          /\ chat[m].kind = "text"
          /\ m \in HistoryWindow(max_history_messages)
          /\ m \notin Range(batch)

\* the dispatch thread invokes the handler it has moved out of the map
InvokesHandler == disp_pc = "invoke" /\ disp_pc' = "receive"

\* C7 -- Response correlation: the handler send_query stored under request id
\* r is invoked only with the response TDLib gave to the request r of
\* send_query, whatever else is pending.
C7_SinkGetsItsOwnResponse ==
    [][InvokesHandler =>
          disp_object.origin = "query" /\ disp_object.id = disp_handler]_vars

\* C8 -- A send_query call whose request TDLib never answers ends by throwing
\* the timeout error, and its handler is then no longer in response_handlers_.
C8_UnansweredCallTimesOut ==
    \A c \in Callers :
        (/\ call_pc[c] \in {"returned", "thrown"}
         /\ Request(call_id[c], "query") \in td_pending)
        => (call_pc[c] = "thrown" /\ call_id[c] \notin response_handlers_)

\* C9 -- In every interleaving of the caller and the dispatch thread, the
\* handler of a send_query call is never invoked once that call has thrown
\* its timeout error.
C9_NoSinkAfterThrow ==
    [][InvokesHandler =>
          ~\E c \in Callers : call_id[c] = disp_handler /\ call_pc[c] = "thrown"]_vars

AuthSequence ==
    <<"Idle", "Connecting", "WaitingPhoneNumber", "WaitingCode",
      "WaitingPassword", "Ready">>

\* the authorization state of TDLib each state of the sequence stands for
ReportedStep ==
    <<"none", "WaitTdlibParameters", "WaitPhoneNumber", "WaitCode",
      "WaitPassword", "Ready">>

Rank(st) == CHOOSE i \in 1..Len(AuthSequence) : AuthSequence[i] = st

\* C10 as stated -- Every change of state_ is a move forward in the sequence
\* Idle, Connecting, WaitingPhoneNumber, WaitingCode, WaitingPassword, Ready,
\* or a move into Error or Closed: it never moves backward in the sequence.
\* (Moves forward by more than one step, and moves out of Error and Closed,
\* are let through here.)
C10_NeverBackward ==
    [][state_' # state_ =>
          \/ state_' \in {"Error", "Closed"}
          \/ state_ \in {"Error", "Closed"}
          \/ Rank(state_') > Rank(state_)]_vars

\* C10 -- Every change of state_ sets it to the state that stands for the
\* authorization state TDLib has just reported, in whatever order TDLib
\* reports them; to Idle when TDLib reports logging out or closing, so that
\* the state can move backward; to Error when the phone number is asked for
\* and none is configured; to Closed when TDLib reports closed or stop() ends.
C10_StateFollowsReportedStep ==
    [][state_' # state_ =>
          \/ state_' = "Closed"
             /\ \/ auth_event' = "Closed"
                \/ starter_pc' \in {"stopped", "start_failed", "deadlocked",
                                    "start_threw"}
          \/ state_' = "Error" /\ auth_event' = "WaitPhoneNumber"
          \/ state_' = "Idle" /\ auth_event' \in {"LoggingOut", "Closing"}
          \/ \E i \in 2..Len(AuthSequence) :
                state_' = AuthSequence[i] /\ auth_event' = ReportedStep[i]]_vars

\* start() has returned true, so Ready was reached, and the state is Idle
\* again after TDLib reported logging out or closing
C10_Witness ==
    /\ starter_pc = "started"
    /\ state_ = "Idle"
    /\ auth_event \in {"LoggingOut", "Closing"}

\* C11 -- start() blocks until the state is Ready or the start-up time is up,
\* and then returns: true when Ready was reached first, false, after
\* stopping the client, when the time ran out.
C11_StartReturns ==
    (starter_pc = "waiting") ~> (starter_pc \in {"started", "start_failed"})

\* C12 -- The waiter of start() stops blocking when the state has become
\* Ready, Error or Closed: in a state where start() waits and the state is
\* one of the three, wait_for returns.
C12_WaiterLeavesOnErrorOrClosed ==
    (starter_pc \in {"waiting", "waiting_elapsed"}
     /\ state_ \in {"Ready", "Error", "Closed"}) => WaitForReturns

\* C13 -- No item the dispatch loop receives stops it: after process_response
\* has handled an item, an error response or an unexpected one included, the
\* process is still running and the loop goes on to the next item.
C13_DispatchLoopSurvives ==
    [][(disp_pc = "receive" /\ gw_running_ /\ ~terminated) => ~terminated']_vars

\* C14 -- The future of download_media_group for a non-empty group is always
\* resolved with a MediaGroupTask value, whatever the members' downloads come
\* to, and each failed member is in the group with state Failed and its
\* error text.
C14_GroupAlwaysResolves ==
    (grp.pc = "join")
        ~> (/\ grp.promise = "value"
            /\ \A i \in 1..Len(grp.tasks_) :
                   tasks[grp.tasks_[i]].state = "Failed"
                       => tasks[grp.tasks_[i]].error # "")

\* C15 -- For a group of n members of which k downloads fail, the resolved
\* MediaGroupTask has completed_count = n - k and failed_count = k: every
\* member is counted, in the count of its own terminal state.
C15_GroupCounts ==
    (grp.pc = "join")
        ~> (/\ grp.promise = "value"
            /\ completed_count(grp.tasks_) + failed_count(grp.tasks_) = Len(grp.input)
            /\ failed_count(grp.tasks_) =
                   Cardinality({t \in Range(grp.futures) : tasks[t].state = "Failed"}))

\* the for loop of forward_worker is at a message of an album that is not in
\* processed_media_groups_, and the album has been fetched
GroupAttempt(m) ==
    /\ should_forward_message(m)
    /\ get_media_group_id(m) # 0
    /\ ~media_group_processed(get_media_group_id(m))
    /\ get_media_group_messages(get_media_group_id(m)) # <<>>

\* C16 -- When a member download of an album fails, or its upload fails, no
\* album is forwarded for it and its id is not put in
\* processed_media_groups_: the step leaves the set, the forwarded messages
\* and the success counter as they were, and after a failed download no send
\* is issued at all.
C16_FailedGroupNotSentNotMarked ==
    [][fw_pc = "process" =>
          \A outcome \in {"download_failed", "error", "timeout"} :
              (/\ GroupAttempt(batch[batch_i])
               /\ FW_process_message("messages", outcome))
              => /\ processed_media_groups_' = processed_media_groups_
                 /\ forwarded_ok' = forwarded_ok
                 /\ forwarded_count_' = forwarded_count_
                 /\ outcome = "download_failed" =>
                        ProcessMessage(batch[batch_i], "messages", outcome).sent = {}]_vars

\* the transfer of a two-member album has just failed
C16_Witness ==
    /\ ~terminated
    /\ failed_group_msgs # {}
    /\ failed_count_ >= 2
    /\ forwarded_count_ = 0
    /\ processed_media_groups_ = {}

\* C17 -- After the transfer of an album has failed, the cursor is not moved
\* past it: at the start of every later poll cycle, as long as the album is
\* not processed, the cursor is below the message at which the transfer was
\* attempted, so that the album is fetched again.
C17_FailedGroupStaysAboveCursor ==
    (fw_pc = "loop" /\ ~terminated)
    => \A m \in failed_group_msgs :
           chat[m].group \notin processed_media_groups_ => last_message_id_ < m

\* C18 -- After the transfer of an album has succeeded, its id is in
\* processed_media_groups_, the cursor is at least the largest id of its
\* members, and the success counter has grown by the number of members.
C18_GroupSuccessRecorded ==
    [][fw_pc = "process" =>
          LET m == batch[batch_i]
              group_messages == get_media_group_messages(get_media_group_id(m))
          IN  (GroupAttempt(m) /\ FW_process_message("messages", "ok"))
              => /\ get_media_group_id(m) \in processed_media_groups_'
                 /\ \A k \in Range(group_messages) : last_message_id_' >= k
                 /\ forwarded_count_' = forwarded_count_ + Len(group_messages)]_vars

\* an album of two members has been forwarded
C18_Witness ==
    /\ processed_media_groups_ # {}
    /\ forwarded_count_ >= 2
    /\ \E a, b \in forwarded_ok : a < b /\ chat[a].group # 0
                                 /\ chat[a].group = chat[b].group

\* C19 -- A fetched message that fails the message-type filter is passed over
\* and the cursor is moved past it: at the end of the cycle the cursor is at
\* least the id of every filtered message of the batch.
C19_FilteredMessagePassed ==
    (fw_pc = "sleep" /\ ~terminated)
    => \A m \in Range(batch) :
           ~should_forward_message(m) => last_message_id_ >= m

\* C20 -- When the forward of a message that belongs to no album fails, the
\* cursor is moved past it all the same: at the end of the cycle the cursor
\* is at least the id of every such message of the batch, so that it is
\* never attempted again.
C20_FailedSingleNotRetried ==
    (fw_pc = "sleep" /\ ~terminated)
    => \A m \in Range(batch) :
           (/\ should_forward_message(m)
            /\ get_media_group_id(m) = 0
            /\ m \notin forwarded_ok)
           => last_message_id_ >= m

\* the for loop of forward_worker is at a message that passes the filter and
\* belongs to an album that is in processed_media_groups_
ProcessedGroupMember(m) ==
    /\ should_forward_message(m)
    /\ get_media_group_id(m) # 0
    /\ get_media_group_id(m) \in processed_media_groups_

C22_OneShotStopsAfterBatch ==
    [][(config_mode = "OneTime" /\ fw_pc = "sleep")
          => /\ batch # <<>> => fw_pc' # "loop"
             /\ batch = <<>> => fw_pc' # "exited"]_vars


\* the body of the for loop raises an exception for message m: the
\* getChatHistory of get_media_group_messages fails, or the send of a text
\* message times out
ProcessingThrows(m, history, outcome) ==
    /\ should_forward_message(m)
    /\ \/ /\ get_media_group_id(m) # 0
          /\ ~media_group_processed(get_media_group_id(m))
          /\ history # "messages"
       \/ /\ get_media_group_id(m) = 0
          /\ forward_message(m, outcome) = "throws"

\* C23 as stated -- Every exception raised while fetching or while
\* processing messages is answered with the doubled interval: the step that
\* raises it takes the thread to the catch at the top of the loop.
C23_EveryExceptionBacksOff ==
    [][/\ (fw_pc = "loop" /\ fw_running_ /\ ~stopping_)
              => \A history \in {"error", "timeout"} :
                     FW_fetch(history) => fw_pc' = "backoff"
       /\ fw_pc = "process"
              => \A history \in HistoryResults, outcome \in ForwardOutcomes :
                     (/\ ProcessingThrows(batch[batch_i], history, outcome)
                      /\ FW_process_message(history, outcome))
                     => fw_pc' = "backoff"]_vars

\* C23 -- No exception raised in the poll loop ends it.  An exception raised
\* by the fetch is caught at the top of the loop, which sleeps twice the
\* poll interval and goes back to the loop head.  An exception raised while
\* a message is processed is caught in the for loop: the message is counted
\* as failed, the batch goes on, and the cycle ends with the poll interval.
\* A cycle without a failed fetch sleeps the poll interval.
C23_ExceptionsCaughtLoopGoesOn ==
    [][/\ (fw_pc = "loop" /\ fw_running_ /\ ~stopping_)
              => \A history \in {"error", "timeout"} :
                     FW_fetch(history) => fw_pc' = "backoff" /\ ~terminated'
       /\ FW_backoff => /\ fw_pc' = "loop"
                        /\ slept_ms' = 2 * wait_time_ms_
                        /\ fw_running_' /\ ~terminated'
       /\ fw_pc = "process"
              => \A history \in HistoryResults, outcome \in ForwardOutcomes :
                     (/\ ProcessingThrows(batch[batch_i], history, outcome)
                      /\ FW_process_message(history, outcome))
                     => /\ failed_count_' = failed_count_ + 1
                        /\ fw_pc' = IF batch_i = Len(batch) THEN "sleep"
                                    ELSE "process"
                        /\ ~terminated'
       /\ \A breaking \in BreakingOutcomes :
              (FW_sleep(breaking) /\ fw_pc' = "loop")
              => slept_ms' = wait_time_ms_ /\ fw_running_']_vars

\* a fetch has failed, the doubled sleep is over and the thread is at the
\* loop head, about to start another cycle
C23_Witness ==
    /\ fw_pc = "loop"
    /\ slept_ms = 2 * wait_time_ms_
    /\ fw_running_ /\ ~stopping_ /\ ~terminated
    /\ cycles < MaxCycles


\* the answers say that the caller may send messages in the target chat: an
\* administrator who can post, or a plain member of a chat that is not a
\* channel
HoldsSendPermission(p) ==
    /\ p.get_chat = "chat"
    /\ p.get_chat_member = "chatMember"
    /\ \/ p.status_ = "Administrator" /\ p.can_post_messages_
       \/ p.status_ = "Member" /\ ~p.is_channel_

\* a start-up precondition is unmet
PreconditionUnmet(source, target, p) ==
    \/ source # "chat_id"
    \/ target # "chat_id"
    \/ ~HoldsSendPermission(p)

\* before start() has succeeded nothing was fetched or forwarded
NothingFetched ==
    /\ ~fw_running_
    /\ cycles = 0
    /\ batch = <<>>
    /\ forwarded_ok = {}
    /\ forwarded_count_ = 0
    /\ failed_count_ = 0

\* C24 as stated -- Whenever a start-up precondition is unmet, start()
\* returns false, creates no thread and leaves is_running() false.
C24_UnmetPreconditionReturnsFalse ==
    [][fw_pc = "idle" =>
       \A source, target \in ResolveResults, p \in PermissionInputs :
           (/\ PreconditionUnmet(source, target, p)
            /\ FW_start(source, target, p, "messages"))
           => /\ start_result' = "false"
              /\ ~fw_running_'
              /\ fw_pc' = "idle"]_vars

\* C24 -- The poll loop is started only when all start-up preconditions
\* hold.  When the source or the target resolves to 0 or its resolution
\* throws, or the caller does not hold the permission, start() does not
\* return true: it returns false, or it is left by the exception of a
\* permission query that timed out.  In both cases no thread is created,
\* is_running() stays false, the cursor is not read and, as long as no call
\* of start() has succeeded, nothing is fetched or forwarded.
C24_StartOnlyWithPreconditions ==
    [][/\ fw_pc \in {"constructed", "idle"} => NothingFetched
       /\ fw_pc = "idle" =>
          \A source, target \in ResolveResults, p \in PermissionInputs :
              (/\ PreconditionUnmet(source, target, p)
               /\ FW_start(source, target, p, "messages"))
              => /\ start_result' \in {"false", "throws"}
                 /\ start_result' = "throws"
                        => "timeout" \in {p.get_chat, p.get_chat_member}
                 /\ fw_pc' = "idle"
                 /\ NothingFetched'
                 /\ last_message_id_' = last_message_id_]_vars

\* start() has returned false while the source chat holds messages: the
\* forwarder is idle and has fetched none of them
C24_Witness ==
    /\ start_result = "false"
    /\ fw_pc = "idle"
    /\ chat # <<>>
    /\ NothingFetched


\* uploads in flight: tasks an upload_worker is uploading, and album sends
\* of upload_media_group that are waiting for their answer
UploadsInFlight ==
    Cardinality({w \in UploadWorkers : ul_pc[w] = "upload"})
    + Cardinality({k \in 1..Len(albums) : albums[k].pc = "send"})

\* C25 -- Upload concurrency is bounded by the size of the upload pool, for
\* single and for group uploads: in every reachable state the number of
\* uploads in flight is at most max_concurrent_uploads_.
C25_UploadsBoundedByPool ==
    UploadsInFlight <= max_concurrent_uploads_


\* the album of thread k has been built and handed to send_query
AlbumBuilt(k) ==
    /\ albums[k].tasks_ # <<>>
    /\ albums[k].pc \in {"send", "done"}

\* C26 -- When the group has a caption, the album that is sent carries it on
\* exactly one item, and that item is the first item of the album, also when
\* members before it were left out as unsupported.
C26_CaptionOnFirstIncludedItem ==
    \A k \in 1..Len(albums) :
        (/\ AlbumBuilt(k)
         /\ caption(albums[k].tasks_) # ""
         /\ albums[k].media_contents # <<>>)
        => LET media_contents == albums[k].media_contents
           IN  /\ media_contents[1].caption = caption(albums[k].tasks_)
               /\ \A j \in 2..Len(media_contents) : media_contents[j].caption = ""

\* C27 -- The album that upload_media_group sends holds one item for every
\* member of a supported kind and none for the others, in the order of the
\* group's task list; an unsupported member does not keep the members after
\* it from being included, and the album is sent.
C27_AlbumIsSupportedMembersInOrder ==
    \A k \in 1..Len(albums) :
        AlbumBuilt(k)
        => LET tasks_ == albums[k].tasks_
               media_contents == albums[k].media_contents
           IN  /\ {media_contents[j].member : j \in 1..Len(media_contents)}
                      = {i \in 1..Len(tasks_) : tasks_[i].kind \in SupportedTypes}
               /\ \A j \in 1..Len(media_contents) :
                      media_contents[j].kind = tasks_[media_contents[j].member].kind
               /\ \A i, j \in 1..Len(media_contents) :
                      i < j => media_contents[i].member < media_contents[j].member

\* an album was sent for a group whose second member is of an unsupported
\* kind: it holds the first and the third member
C27_Witness ==
    /\ Len(albums) = 1
    /\ albums[1].pc = "done"
    /\ albums[1].promise = "value"
    /\ Len(albums[1].tasks_) = 3
    /\ albums[1].tasks_[2].kind \notin SupportedTypes
    /\ Len(albums[1].media_contents) = 2
    /\ albums[1].media_contents[2].member = 3


\* C28 -- A failed download or upload marks its MediaTask Failed with the
\* error text and does not end the worker: every step a worker thread takes
\* with a task it has dequeued leaves the process and the thread running,
\* and when the thread is back at the queue the task is Completed, or Failed
\* with an error text.
C28_WorkerSurvivesItsTask ==
    [][/\ \A w \in DownloadWorkers :
              (dl_pc[w] \in {"check", "download"} /\ download_worker(w))
              => /\ ~terminated'
                 /\ dl_pc'[w] \in {"download", "wait"}
                 /\ dl_pc'[w] = "wait"
                        => LET task == tasks'[dl_task[w]]
                           IN  /\ task.state \in TerminalStates
                               /\ task.state = "Failed" => task.error # ""
       /\ \A w \in UploadWorkers :
              (ul_pc[w] \in {"check", "upload"} /\ upload_worker(w))
              => /\ ~terminated'
                 /\ ul_pc'[w] \in {"upload", "wait"}
                 /\ ul_pc'[w] = "wait"
                        => LET task == tasks'[uploads[ul_task[w]].task]
                           IN  /\ task.state \in TerminalStates
                               /\ task.state = "Failed" => task.error # ""]_vars


\* C30 -- Cooperative shutdown of the engine: when stop() has returned, all
\* worker threads have exited, no transfer is in flight and nobody is left
\* waiting: every future handed out by download_media or upload_media has
\* its value or its exception.
C30_StopLeavesNobodyBlocked ==
    mh_stop_pc = "stopped"
    => /\ \A w \in DownloadWorkers : dl_pc[w] = "exited"
       /\ \A w \in UploadWorkers : ul_pc[w] = "exited"
       /\ active_downloads_ = 0 /\ active_uploads_ = 0
       /\ \A t \in 1..Len(promises) : promises[t].state # "pending"
       /\ \A u \in 1..Len(uploads) : uploads[u].promise.state # "pending"


(***************************************************************************)
(* C31  Resolver cache.  Once resolve_channel_sync(s) has returned an id   *)
(* for the identifier s, and until clear_cache() is called, the entry of   *)
(* s in channel_cache_ holds that id (it is neither overwritten nor        *)
(* removed), and every call for s begun later returns that id without a    *)
(* query to the backend.                                                   *)
(***************************************************************************)
C31_CachedIdReturnedUntilCleared ==
    /\ \A s \in ChannelIdentifiers :
           first_returned[s] # NoId => channel_cache_[s] = first_returned[s]
    /\ \A c \in ResolverThreads :
           (rc_pc[c] = "idle" /\ rc_later[c]) =>
               /\ rc_ret[c] = first_returned[rc_arg[c]]
               /\ ~rc_backend[c]


(***************************************************************************)
(* C32  At most one update handler per event kind.  After any sequence of  *)
(* register_update_handler / unregister_update_handler calls, an inbound   *)
(* update of kind k is handed to no handler but the one registered for k   *)
(* last and not unregistered since (a later registration has replaced the  *)
(* earlier one), and an update of a kind with no handler registered is     *)
(* dropped: it changes nothing in the gateway.                             *)
(***************************************************************************)
C32_UpdateGoesToRegisteredHandler ==
    [][\A object \in UpdateInbound, ub \in MovedObjectOutcomes \cup {"none"} :
           (process_response(object, ub, TRUE) /\ ItemNoted(object)) =>
               /\ disp_update'.handler \in {NoHandler, registered[object.kind]}
               /\ disp_update'.handler # NoHandler =>
                      disp_update'.type = object.kind
               /\ registered[object.kind] = NoHandler =>
                      UNCHANGED <<gw_vars, terminated>>]_vars

\* an updateNewMessage was handed to handler 2, registered in place of 1
C32_Witness ==
    /\ disp_update = [type |-> "updateNewMessage", handler |-> 2]
    /\ registered["updateNewMessage"] = 2
    /\ replaced["updateNewMessage"] = 1


(***************************************************************************)
(* C33  The dispatch loop is the single consumer of the inbound stream.    *)
(* Items are handled one at a time and in arrival order: when a sink is    *)
(* called, the item it is called for is the item received last, and when   *)
(* an update handler or a sink is called, no handler or sink has been      *)
(* called for a later item; this while the threads calling send_query run  *)
(* concurrently.                                                           *)
(***************************************************************************)
C33_HandledOneAtATimeInOrder ==
    [][/\ InvokesHandler =>
              /\ disp_seq = received
              /\ handled_seq <= disp_seq
       /\ (received' # received /\ disp_update' # NoUpdateCall) =>
              /\ handled_seq <= received
              /\ disp_pc = "receive"]_vars

\* both threads have sent a request; an update and the two responses were
\* handled, one after the other
C33_Witness ==
    /\ registered["updateNewMessage"] = 1
    /\ handled_seq = 3
    /\ received = 3
    /\ \A c \in Callers : call_got[c] # NoObject

(***************************************************************************)
(* C34  Each completion sink is called at most once: the handler is taken  *)
(* out of response_handlers_ before it is called, so no sequence of        *)
(* responses and timeouts makes the sink of one request run twice.         *)
(***************************************************************************)
C34_SinkCalledAtMostOnce ==
    [][InvokesHandler => disp_handler \notin invoked_sinks]_vars

\* one sink was called, the other request timed out and its handler was
\* erased, and both responses have come in
C34_Witness ==
    /\ Cardinality(invoked_sinks) = 1
    /\ response_handlers_ = {}
    /\ \E c \in Callers : call_pc[c] = "thrown"
    /\ query_id_ = 2
    /\ td_pending = {}
    /\ disp_pc = "receive"

(***************************************************************************)
(* C35  Request ids are unique: no two requests written to TDLib during    *)
(* one session, by send_query_async (send_code and send_password included) *)
(* or by the dispatch thread itself, carry the same request id.            *)
(***************************************************************************)
C35_RequestIdsUnique == \A id \in RequestIds : written[id] <= 1


C38_GroupAttemptedOncePerCycle ==
    [][fw_pc = "process" =>
         \A history \in HistoryResults, outcome \in ForwardOutcomes :
             (/\ get_media_group_id(batch[batch_i]) \in cycle_failed
              /\ FW_process_message(history, outcome))
                 => /\ ProcessMessage(batch[batch_i], history, outcome).handed = {}
                    /\ failed_count_' = failed_count_]_vars

\* C39 -- No message is skipped unseen: every message of the source after
\* the cursor of start() that the cursor has reached or passed was returned
\* by get_new_messages in some poll cycle, or was at least fetched with the
\* album of a message so returned.
C39_NoMessageSkippedUnseen ==
    \A m \in 1..Len(chat) :
        (startup_cursor < m /\ m <= last_message_id_)
            => m \in fetched \cup album_fetched

\* C40 -- No message at or below the cursor of start() is ever downloaded or
\* sent, alone or as a member of an album: every message an iteration of the
\* loop hands to forward_message or forward_media_group is above it.
C40_NothingAtOrBelowStartCursor ==
    [][fw_pc = "process" =>
         \A history \in HistoryResults, outcome \in ForwardOutcomes :
             FW_process_message(history, outcome)
                 => \A m \in ProcessMessage(batch[batch_i], history, outcome).handed :
                        m > startup_cursor]_vars

=============================================================================
